---- MODULE Spec2Model ----
(***************************************************************************)
(* Book management service: the relational store (books, reviews), the    *)
(* Redis-backed cache, the recommendation engine that composes them and   *)
(* the request handlers that mutate the store and invalidate the cache.   *)
(* Every handler is split at its await points, so requests interleave     *)
(* exactly where the event loop (or another worker) may switch.           *)
(***************************************************************************)
EXTENDS Integers, Sequences, FiniteSets, TLC

(* ------------------------------ bounds -------------------------------- *)
NumProcs == 2
MaxBooks == 2
MaxReviews == 2
MaxUsers == 2
MaxLimit == 1
QueryBooks == 3
MaxScanBatch == 1

Procs == 1..NumProcs
Users == 1..MaxUsers

(* Optional values: None is the empty tuple, Some(x) the one-tuple.       *)
None == <<>>
Some(x) == <<x>>
IsSome(o) == Len(o) = 1
Get(o) == o[1]

Min(a, b) == IF a < b THEN a ELSE b

(* ------------------------- request input sets ------------------------- *)
Titles == {"Dune"}
Authors == {"Herbert"}
BookGenres == {"Fiction", "Nonesuch"}
Years == {1965}
FilterGenres == {None, Some("None"), Some("fiction")}

(* ------------------------------ strings ------------------------------- *)
UpperCase == "ABCDEFGHIJKLMNOPQRSTUVWXYZ"
LowerCase == "abcdefghijklmnopqrstuvwxyz"
DigitChars == "0123456789"

CharAt(s, i) == SubSeq(s, i, i)

Lower(c) ==
  IF \E i \in 1..Len(UpperCase) : CharAt(UpperCase, i) = c
  THEN CharAt(LowerCase, CHOOSE i \in 1..Len(UpperCase) : CharAt(UpperCase, i) = c)
  ELSE c

(* str(int) of a non-negative integer: decimal digits, most significant   *)
(* first.                                                                  *)
RECURSIVE IntToStr(_)
IntToStr(n) ==
  IF n < 10 THEN CharAt(DigitChars, n + 1)
  ELSE IntToStr(n \div 10) \o CharAt(DigitChars, (n % 10) + 1)

RECURSIVE StrToInt(_)
StrToInt(s) ==
  IF Len(s) = 0 THEN 0
  ELSE StrToInt(SubSeq(s, 1, Len(s) - 1)) * 10
       + ((CHOOSE i \in 1..10 : CharAt(DigitChars, i) = CharAt(s, Len(s))) - 1)

(* f"{genre}" of an Optional[str]: None formats as the text None.         *)
FormatGenre(genre) == IF IsSome(genre) THEN Get(genre) ELSE "None"

(* SQL ILIKE: % matches any run, _ any one character, a backslash escapes *)
(* the next pattern character, everything else matches case-insensitively.*)
RECURSIVE ILikeFrom(_, _, _, _)
ILikeFrom(s, i, pat, j) ==
  IF j > Len(pat) THEN i > Len(s)
  ELSE LET c == CharAt(pat, j) IN
    IF c = "%" THEN
      \/ ILikeFrom(s, i, pat, j + 1)
      \/ (i <= Len(s) /\ ILikeFrom(s, i + 1, pat, j))
    ELSE IF c = "_" THEN i <= Len(s) /\ ILikeFrom(s, i + 1, pat, j + 1)
    ELSE IF c = "\\" /\ j < Len(pat) THEN
      /\ i <= Len(s)
      /\ Lower(CharAt(s, i)) = Lower(CharAt(pat, j + 1))
      /\ ILikeFrom(s, i + 1, pat, j + 2)
    ELSE
      /\ i <= Len(s)
      /\ Lower(CharAt(s, i)) = Lower(c)
      /\ ILikeFrom(s, i + 1, pat, j + 1)

ilike(s, pat) == ILikeFrom(s, 1, pat, 1)

(* Redis glob (KEYS/SCAN MATCH): * matches any run, ? any one character,  *)
(* a backslash escapes, everything else matches itself.                   *)
RECURSIVE GlobFrom(_, _, _, _)
GlobFrom(s, i, pat, j) ==
  IF j > Len(pat) THEN i > Len(s)
  ELSE LET c == CharAt(pat, j) IN
    IF c = "*" THEN
      \/ GlobFrom(s, i, pat, j + 1)
      \/ (i <= Len(s) /\ GlobFrom(s, i + 1, pat, j))
    ELSE IF c = "?" THEN i <= Len(s) /\ GlobFrom(s, i + 1, pat, j + 1)
    ELSE IF c = "\\" /\ j < Len(pat) THEN
      /\ i <= Len(s)
      /\ CharAt(s, i) = CharAt(pat, j + 1)
      /\ GlobFrom(s, i + 1, pat, j + 2)
    ELSE
      /\ i <= Len(s)
      /\ CharAt(s, i) = c
      /\ GlobFrom(s, i + 1, pat, j + 1)

GlobMatch(s, pat) == GlobFrom(s, 1, pat, 1)

(* ------------------------------- JSON --------------------------------- *)
(* A JSON text is kept as its sequence of tokens.  Strings are quoted,    *)
(* integers and floats are written in decimal, Python's None is null.     *)
Quote(s) == "\"" \o s \o "\""
Unquote(t) == SubSeq(t, 2, Len(t) - 1)

EntryTokens == 8

json_dumps_entry(e) ==
  << "{", IntToStr(e.id), Quote(e.title), Quote(e.author), Quote(e.genre),
     IF IsSome(e.average_rating) THEN IntToStr(Get(e.average_rating)) ELSE "null",
     IntToStr(e.total_reviews), "}" >>

RECURSIVE json_dumps_entries(_)
json_dumps_entries(value) ==
  IF Len(value) = 0 THEN <<>>
  ELSE json_dumps_entry(Head(value)) \o json_dumps_entries(Tail(value))

json_dumps(value) == <<"[">> \o json_dumps_entries(value) \o <<"]">>

json_loads_entry(t) ==
  [ id |-> StrToInt(t[2]),
    title |-> Unquote(t[3]),
    author |-> Unquote(t[4]),
    genre |-> Unquote(t[5]),
    average_rating |-> IF t[6] = "null" THEN None ELSE Some(StrToInt(t[6])),
    total_reviews |-> StrToInt(t[7]) ]

json_loads(text) ==
  [ i \in 1..((Len(text) - 2) \div EntryTokens) |->
      json_loads_entry(SubSeq(text, 2 + (i - 1) * EntryTokens, 1 + i * EntryTokens)) ]

(* ---------------------------- cache keys ------------------------------ *)
RecommendationsPattern == "recommendations:*"

cache_key(genre, limit) ==
  "recommendations:genre=" \o FormatGenre(genre) \o ":limit=" \o IntToStr(limit)

(* ------------------------------- state -------------------------------- *)
VARIABLES
  books,          \* table books: id -> row, for the ids that exist
  reviews,        \* table reviews: the set of rows
  nextBookId,     \* the books.id sequence
  nextReviewId,   \* the reviews.id sequence
  users,          \* table users: the set of rows
  redis_client,   \* cache_service.redis_client: TRUE when connected, FALSE for None
  redis_up,       \* the Redis server answers; FALSE: every call on the client raises
  cache,          \* the Redis keyspace: key -> [value, ex]
  pc,             \* per request task: where its handler stands
  req,            \* per request task: the operation, its parameters, what it found at its start
  loc,            \* per request task: the handler's local variables
  resp,           \* per request task: the response, once produced
  calls,          \* per request task: the calls its handler has made so far
  writer,         \* per cache key: the (genre, limit) of the call that wrote it
  hist            \* the previous request, if a recommendation call on an empty cache

vars == << books, reviews, nextBookId, nextReviewId, users, redis_client, redis_up,
           cache, pc, req, loc, resp, calls, writer, hist >>

store == << books, reviews, nextBookId, nextReviewId >>

(* --------------------------- store queries ---------------------------- *)
RECURSIVE SumRatings(_)
SumRatings(rs) ==
  IF rs = {} THEN 0
  ELSE LET r == CHOOSE x \in rs : TRUE IN r.rating + SumRatings(rs \ {r})

RECURSIVE Factorial(_)
Factorial(n) == IF n <= 1 THEN 1 ELSE n * Factorial(n - 1)

(* Averages are kept exactly, as AvgScale times the mean: every count of  *)
(* reviews the model can reach divides AvgScale.                          *)
AvgScale == Factorial(MaxReviews)

ReviewsOf(rvs, book_id) == { r \in rvs : r.book_id = book_id }

(* func.avg(Review.rating): NULL over no rows.                            *)
sql_avg(rs) ==
  IF rs = {} THEN None
  ELSE Some((SumRatings(rs) * AvgScale) \div Cardinality(rs))

(* func.count(Review.id) *)
sql_count(rs) == Cardinality(rs)

(* One row of the grouped outer join of books with reviews.               *)
RecommendationRow(bks, rvs, id) ==
  [ id |-> id,
    title |-> bks[id].title,
    author |-> bks[id].author,
    genre |-> bks[id].genre,
    average_rating |-> sql_avg(ReviewsOf(rvs, id)),
    total_reviews |-> sql_count(ReviewsOf(rvs, id)) ]

(* if genre: filters.append(Book.genre.ilike(f"%{genre}%"))               *)
GenreFilter(bks, genre) ==
  IF IsSome(genre) /\ Len(Get(genre)) > 0
  THEN { id \in DOMAIN bks : ilike(bks[id].genre, "%" \o Get(genre) \o "%") }
  ELSE DOMAIN bks

(* The two sort keys taken in the other order. *)
OrderedBefore_AverageFirst(r1, r2) ==
  \/ /\ ~IsSome(r1.average_rating)
     /\ IsSome(r2.average_rating)
  \/ /\ IsSome(r1.average_rating)
     /\ IsSome(r2.average_rating)
     /\ Get(r1.average_rating) > Get(r2.average_rating)
  \/ /\ r1.average_rating = r2.average_rating
     /\ r1.total_reviews >= r2.total_reviews

(* ORDER BY count DESC, avg DESC: r1 may stand before r2.  PostgreSQL     *)
(* sorts NULL first under DESC.                                           *)
OrderedBefore(r1, r2) ==
  \/ r1.total_reviews > r2.total_reviews
  \/ /\ r1.total_reviews = r2.total_reviews
     /\ \/ ~IsSome(r1.average_rating)
        \/ /\ IsSome(r1.average_rating)
           /\ IsSome(r2.average_rating)
           /\ Get(r1.average_rating) >= Get(r2.average_rating)

(* Every order the database may return the rows in: rows that tie on both *)
(* keys come in an order the query does not fix.                          *)
OrderBy(rows) ==
  LET n == Cardinality(rows) IN
  { s \in [1..n -> rows] :
      /\ \A i, j \in 1..n : i # j => s[i] # s[j]
      /\ \A i, j \in 1..n : i < j => OrderedBefore(s[i], s[j]) }

sql_limit(s, limit) == SubSeq(s, 1, Min(limit, Len(s)))

(* The result sets db.execute(query) may return.                          *)
RecommendationQuery(bks, rvs, genre, limit) ==
  { sql_limit(s, limit) :
      s \in OrderBy({ RecommendationRow(bks, rvs, id) : id \in GenreFilter(bks, genre) }) }

(* A list that reports a missing average as 0.0, the way the summary does. *)
FormatRow_ZeroSentinel(row) ==
  [ row EXCEPT !.average_rating =
      IF IsSome(row.average_rating) /\ Get(row.average_rating) # 0
      THEN row.average_rating ELSE Some(0) ]

(* float(row.average_rating) if row.average_rating else None: a zero      *)
(* average is falsy.  float() keeps distinct means distinct.              *)
FormatRow(row) ==
  [ row EXCEPT !.average_rating =
      IF IsSome(row.average_rating) /\ Get(row.average_rating) # 0
      THEN row.average_rating ELSE None ]

FormatRows(rows) == [ i \in 1..Len(rows) |-> FormatRow(rows[i]) ]

(* What a recommendation call that reads the store may answer.            *)
FreshRecommendations(bks, rvs, genre, limit) ==
  { FormatRows(rows) : rows \in RecommendationQuery(bks, rvs, genre, limit) }

(* A lookup whose WHERE clause is lost: any row will do. *)
scalar_one_or_none_AnyRow(bks, book_id) ==
  IF DOMAIN bks = {} THEN None ELSE Some(bks[CHOOSE id \in DOMAIN bks : TRUE])

(* select(Book).where(Book.id == book_id), scalar_one_or_none() *)
scalar_one_or_none(bks, book_id) ==
  IF book_id \in DOMAIN bks THEN Some(bks[book_id]) ELSE None

(* A summary that passes the aggregate on as it came. *)
SummaryAverage_AsComputed(average_rating) == average_rating

(* float(stats.average_rating) if stats.average_rating else 0.0 *)
SummaryAverage(average_rating) ==
  IF IsSome(average_rating) /\ Get(average_rating) # 0
  THEN average_rating ELSE Some(0)

(* select(avg(Review.rating), count(Review.id)).where(book_id == id), and *)
(* the two aggregate fields of the dictionary get_book_summary returns.   *)
SummaryStats(rvs, book_id) ==
  [ average_rating |-> SummaryAverage(sql_avg(ReviewsOf(rvs, book_id))),
    total_reviews |-> sql_count(ReviewsOf(rvs, book_id)) ]

(* --------------------------- cache service ---------------------------- *)
CACHE_TTL == 3600

RedisGet(c, key) == IF key \in DOMAIN c THEN Some(c[key].value) ELSE None

(* SET without an expiry: the key stays until it is deleted.              *)
RedisSet_NoExpiry(c, key, seconds, value) ==
  [ k \in DOMAIN c \cup {key} |->
      IF k = key THEN [value |-> value, ex |-> 0] ELSE c[k] ]

(* SETEX refuses a non-positive expiry.                                   *)
RedisSetEx(c, key, seconds, value) ==
  [ k \in DOMAIN c \cup {key} |->
      IF k = key THEN [value |-> value, ex |-> seconds] ELSE c[k] ]

RedisDelete(c, keys) == [ k \in DOMAIN c \ keys |-> c[k] ]

(* A scan that returns every key, whatever the pattern. *)
RedisScanMatch_All(c, pattern) == DOMAIN c

RedisScanMatch(c, pattern) == { k \in DOMAIN c : GlobMatch(k, pattern) }

(* scan(cursor, match=pattern, count=100) *)
ScanCount == 100

(* One SCAN call walks count keys the iteration has not walked yet, or    *)
(* all that are left: the parts of the keyspace it may walk.              *)
ScanBatches(c, visited, count) ==
  LET rest == DOMAIN c \ visited IN
  { B \in SUBSET rest : Cardinality(B) = Min(count, Cardinality(rest)) }

(* CacheService.get: None without a client, and None from the except     *)
(* branch when the call on the client raises.                             *)
cache_get(client, up, c, key) ==
  IF ~client THEN None
  ELSE IF ~up THEN None
  ELSE LET value == RedisGet(c, key) IN
       IF IsSome(value) /\ Len(Get(value)) > 0
       THEN Some(json_loads(Get(value)))
       ELSE None

(* A set whose default expiry is zero seconds. *)
cache_set_ZeroDefault(client, up, c, key, value, ttl) ==
  IF ~client THEN c
  ELSE IF ~up THEN c
  ELSE LET ttl_seconds == IF IsSome(ttl) THEN Get(ttl) ELSE 0 IN
       IF ttl_seconds <= 0 THEN c
       ELSE RedisSetEx(c, key, ttl_seconds, json_dumps(value))

(* CacheService.set: the keyspace after the call; a call that raises      *)
(* leaves it as it was and returns False.                                 *)
cache_set(client, up, c, key, value, ttl) ==
  IF ~client THEN c
  ELSE IF ~up THEN c
  ELSE LET ttl_seconds == IF IsSome(ttl) THEN Get(ttl) ELSE CACHE_TTL IN
       IF ttl_seconds <= 0 THEN c
       ELSE RedisSetEx(c, key, ttl_seconds, json_dumps(value))

(* -------------------------- request handling -------------------------- *)
MinLimit == 1
MaxQueryLimit == 50
MinRating == 1
MaxRating == 5

(* A limit check that has lost its upper bound. *)
ValidLimit_NoUpperBound(limit) == limit >= MinLimit

(* limit: int = Query(10, ge=1, le=50) *)
ValidLimit(limit) == limit >= MinLimit /\ limit <= MaxQueryLimit

(* A rating check that has lost its upper bound. *)
ValidRating_NoUpperBound(rating) == rating >= MinRating

(* rating: int = Field(..., ge=1, le=5) *)
ValidRating(rating) == rating >= MinRating /\ rating <= MaxRating

LimitInputs == (0..MaxLimit) \cup {MaxQueryLimit + 1}
(* ReviewCreate bodies, two of them with a rating out of range.           *)
ReviewInputs ==
  { [rating |-> 3, review_text |-> "First review"],
    [rating |-> MaxRating, review_text |-> "Second review"],
    [rating |-> MinRating - 1, review_text |-> "Second review"],
    [rating |-> MaxRating + 1, review_text |-> "Second review"] }

(* The accounts the reviewers are logged in with.                         *)
Accounts ==
  { [ id |-> u,
      email |-> "user" \o IntToStr(u) \o "@x.io",
      username |-> "user" \o IntToStr(u),
      hashed_password |-> <<"hash", "password1">>,
      is_active |-> TRUE ] : u \in Users }

BookIds == 1..MaxBooks
ReviewIds == 1..MaxReviews

(* ReviewUpdate bodies: the fields that were sent.                         *)
ReviewUpdateInputs ==
  { [f \in {"rating"} |-> MaxRating],
    [f \in {"review_text"} |-> "Edited review"],
    [f \in {"rating"} |-> MaxRating + 1],
    [f \in {"rating"} |-> MinRating - 1] }

(* BookUpdate bodies: the fields that were sent (exclude_unset).          *)
BookUpdateInputs ==
  { [f \in fs |-> IF f = "title" THEN t ELSE g] :
      fs \in SUBSET {"title", "genre"}, t \in Titles, g \in BookGenres }

HTTP_200_OK == 200
HTTP_201_CREATED == 201
HTTP_204_NO_CONTENT == 204
HTTP_400_BAD_REQUEST == 400
HTTP_403_FORBIDDEN == 403
HTTP_404_NOT_FOUND == 404
HTTP_422_UNPROCESSABLE == 422
HTTP_500_INTERNAL == 500

(* The requests clients send.  Served one after the other, they range     *)
(* over every input above; served concurrently, over the few of them the  *)
(* races need.                                                            *)
SequentialLoad ==
  [ sequential |-> TRUE,
    remember |-> TRUE,
    filter_genres |-> FilterGenres,
    limits |-> LimitInputs,
    book_genres |-> BookGenres,
    updates |-> BookUpdateInputs,
    users |-> Users,
    reviews |-> ReviewInputs,
    review_updates |-> ReviewUpdateInputs,
    scan_counts |-> {ScanCount} ]

ConcurrentLoad ==
  [ sequential |-> FALSE,
    remember |-> FALSE,
    filter_genres |-> {None},
    limits |-> {MinLimit},
    book_genres |-> {"Fiction"},
    updates |-> { [f \in {"genre"} |-> "Nonesuch"] },
    users |-> {1},
    reviews |-> { [rating |-> MaxRating, review_text |-> "Second review"] },
    review_updates |-> { [f \in {"rating"} |-> 3] },
    scan_counts |-> {ScanCount} ]

ServiceLoad ==
  [ sequential |-> TRUE,
    remember |-> FALSE,
    filter_genres |-> {None},
    limits |-> {MinLimit},
    book_genres |-> {"Fiction"},
    updates |-> { [f \in {"genre"} |-> "Nonesuch"] },
    users |-> Users,
    reviews |-> { [rating |-> 3, review_text |-> "First review"],
                  [rating |-> MinRating - 1, review_text |-> "Second review"],
                  [rating |-> MaxRating + 1, review_text |-> "Second review"] },
    review_updates |-> ReviewUpdateInputs,
    scan_counts |-> {ScanCount} ]

OutageLoad ==
  [ sequential |-> TRUE,
    remember |-> FALSE,
    filter_genres |-> {None, Some("fiction")},
    limits |-> {MinLimit},
    book_genres |-> {"Fiction"},
    updates |-> { [f \in {"genre"} |-> "Nonesuch"] },
    users |-> {1},
    reviews |-> { [rating |-> 3, review_text |-> "First review"] },
    review_updates |-> {},
    scan_counts |-> {ScanCount} ]

(* Several scan calls per clear_pattern: the server walks few keys a call. *)
ScanLoad ==
  [ sequential |-> TRUE,
    remember |-> FALSE,
    filter_genres |-> {None, Some("fiction")},
    limits |-> {MinLimit},
    book_genres |-> {"Fiction"},
    updates |-> { [f \in {"genre"} |-> "Nonesuch"] },
    users |-> {1},
    reviews |-> { [rating |-> 3, review_text |-> "First review"] },
    review_updates |-> {},
    scan_counts |-> 1..MaxScanBatch ]

ScanRaceLoad == [ScanLoad EXCEPT !.sequential = FALSE]

QueryLoad ==
  [ sequential |-> TRUE,
    remember |-> FALSE,
    filter_genres |-> {None, Some("fiction"), Some("fic_ion")},
    limits |-> 1..QueryBooks,
    book_genres |-> BookGenres,
    updates |-> {},
    users |-> Users,
    reviews |-> {},
    review_updates |-> {},
    scan_counts |-> {ScanCount} ]

NoReq == [op |-> "none"]
NoLoc == [none |-> TRUE]

Invalidates_UpdateForgets(op) ==
  op \in {"create_book", "delete_book", "create_book_review"}

(* The handlers that call invalidate_recommendations_cache after commit.  *)
Invalidates(op) ==
  op \in {"create_book", "update_book", "delete_book", "create_book_review"}

InFlight(op) == Cardinality({ q \in Procs : req[q].op = op })

(* A request may start on an idle task; in a sequential run one task      *)
(* serves every request.                                                  *)
CanStart(p, w) ==
  /\ pc[p] = "idle"
  /\ w.sequential => p = 1

Begin(p, r, l, at) ==
  /\ req' = [req EXCEPT ![p] = r]
  /\ loc' = [loc EXCEPT ![p] = l]
  /\ pc' = [pc EXCEPT ![p] = at]
  /\ UNCHANGED << resp, calls >>

(* Reject at validation: nothing but the response is produced.            *)
Reject(p, r, status) ==
  /\ req' = [req EXCEPT ![p] = r]
  /\ resp' = [resp EXCEPT ![p] = Some([status |-> status])]
  /\ pc' = [pc EXCEPT ![p] = "done"]
  /\ UNCHANGED << loc, calls >>

Respond(p, r) ==
  /\ resp' = [resp EXCEPT ![p] = Some(r)]
  /\ pc' = [pc EXCEPT ![p] = "done"]

Called(p, what) == calls' = [calls EXCEPT ![p] = Append(@, what)]

(* After the service has committed: the endpoint invalidates, then        *)
(* answers; a bare service call answers at once.                          *)
AfterCommit(p, result) ==
  IF Invalidates(req[p].op)
  THEN /\ pc' = [pc EXCEPT ![p] = "clear_pattern_scan"]
       /\ loc' = [loc EXCEPT ![p] = [result |-> result, cursor |-> 0, visited |-> {},
                                     present |-> {}, deleted |-> {}]]
       /\ UNCHANGED resp
  ELSE /\ Respond(p, result)
       /\ UNCHANGED loc

(* ----------------------- GET /recommendations ------------------------- *)
StartGetRecommendations(p, w) ==
  /\ CanStart(p, w)
  /\ \E genre \in w.filter_genres, limit \in w.limits :
       LET r == [op |-> "get_recommendations", genre |-> genre, limit |-> limit,
                 empty_before |-> DOMAIN cache = {}] IN
       IF ~ValidLimit(limit)
       THEN Reject(p, r, HTTP_422_UNPROCESSABLE)
       ELSE Begin(p, r, [cache_key |-> cache_key(genre, limit)], "rec_cache_get")
  /\ UNCHANGED << store, users, redis_client, redis_up, cache, writer, hist >>

(* if cached_data: an empty list counts as a miss. *)
IsHit_Truthy(cached_data) == IsSome(cached_data) /\ Len(Get(cached_data)) > 0

(* if cached_data is not None *)
IsHit(cached_data) == IsSome(cached_data)

(* cached_data = await cache_service.get(cache_key) *)
RecCacheGet(p) ==
  /\ pc[p] = "rec_cache_get"
  /\ Called(p, "cache.get")
  /\ LET cached_data == cache_get(redis_client, redis_up, cache, loc[p].cache_key) IN
       IF IsHit(cached_data)
       THEN /\ Respond(p, [status |-> HTTP_200_OK,
                           recommendations |-> Get(cached_data),
                           total |-> Len(Get(cached_data)),
                           cached |-> TRUE,
                           written_for |-> writer[loc[p].cache_key]])
            /\ UNCHANGED loc
       ELSE /\ pc' = [pc EXCEPT ![p] = "rec_query"]
            /\ UNCHANGED << loc, resp >>
  /\ UNCHANGED << store, users, redis_client, redis_up, cache, req, writer, hist >>

(* result = await db.execute(query); rows formatted *)
RecQuery(p) ==
  /\ pc[p] = "rec_query"
  /\ Called(p, "db.execute")
  /\ \E rows \in RecommendationQuery(books, reviews, req[p].genre, req[p].limit) :
       loc' = [loc EXCEPT ![p] =
                 [cache_key |-> @.cache_key, recommendations |-> FormatRows(rows)]]
  /\ pc' = [pc EXCEPT ![p] = "rec_cache_set"]
  /\ UNCHANGED << store, users, redis_client, redis_up, cache, req, resp, writer, hist >>

(* A failing query whose handler still stores an empty list. *)
RecQueryFails_StoresEmpty(p) ==
  /\ pc[p] = "rec_query"
  /\ Called(p, "db.execute")
  /\ cache' = cache_set(redis_client, redis_up, cache, loc[p].cache_key, << >>, None)
  /\ writer' = [ k \in DOMAIN cache' |->
                   IF k = loc[p].cache_key
                   THEN [genre |-> req[p].genre, limit |-> req[p].limit]
                   ELSE writer[k] ]
  /\ Respond(p, [status |-> HTTP_500_INTERNAL])
  /\ UNCHANGED << store, users, redis_client, redis_up, req, loc, hist >>

(* db.execute(query) raises: the exception leaves the service and the     *)
(* endpoint, and the application's exception handler answers 500.         *)
RecQueryFails(p) ==
  /\ pc[p] = "rec_query"
  /\ Called(p, "db.execute")
  /\ Respond(p, [status |-> HTTP_500_INTERNAL])
  /\ UNCHANGED << store, users, redis_client, redis_up, cache, req, loc, writer, hist >>

(* await cache_service.set(cache_key, recommendations); return ..., False *)
RecCacheSet(p) ==
  /\ pc[p] = "rec_cache_set"
  /\ Called(p, "cache.set")
  /\ cache' = cache_set(redis_client, redis_up, cache, loc[p].cache_key,
                        loc[p].recommendations, None)
  /\ writer' = [ k \in DOMAIN cache' |->
                   IF k = loc[p].cache_key
                   THEN [genre |-> req[p].genre, limit |-> req[p].limit]
                   ELSE writer[k] ]
  /\ Respond(p, [status |-> HTTP_200_OK,
                 recommendations |-> loc[p].recommendations,
                 total |-> Len(loc[p].recommendations),
                 cached |-> FALSE])
  /\ UNCHANGED << store, users, redis_client, redis_up, req, loc, hist >>

(* --------------------------- POST /books ------------------------------ *)
StartCreateBook(p, w) ==
  /\ CanStart(p, w)
  /\ nextBookId + InFlight("create_book") <= MaxBooks
  /\ \E t \in Titles, a \in Authors, g \in w.book_genres, y \in Years :
       Begin(p, [op |-> "create_book",
                 book_data |-> [title |-> t, author |-> a, genre |-> g,
                                year_published |-> y]],
             NoLoc, "create_book_commit")
  /\ UNCHANGED << store, users, redis_client, redis_up, cache, writer, hist >>

(* BookService.create_book: db.add; commit; refresh *)
CreateBookCommit(p) ==
  /\ pc[p] = "create_book_commit"
  /\ Called(p, "commit")
  /\ LET new_book == [ title |-> req[p].book_data.title,
                       author |-> req[p].book_data.author,
                       genre |-> req[p].book_data.genre,
                       year_published |-> req[p].book_data.year_published,
                       summary |-> None ] IN
       /\ books' = [ id \in DOMAIN books \cup {nextBookId} |->
                       IF id = nextBookId THEN new_book ELSE books[id] ]
       /\ AfterCommit(p, [status |-> HTTP_201_CREATED, id |-> nextBookId,
                          book |-> new_book])
  /\ nextBookId' = nextBookId + 1
  /\ UNCHANGED << reviews, nextReviewId, users, redis_client, redis_up, cache, req, writer, hist >>

(* ---------------------- GET /books/{id}/summary ----------------------- *)
StartGetBookSummary(p, w) ==
  /\ CanStart(p, w)
  /\ \E id \in DOMAIN books \cup {nextBookId} :
       Begin(p, [op |-> "get_book_summary", book_id |-> id], NoLoc, "summary_get")
  /\ UNCHANGED << store, users, redis_client, redis_up, cache, writer, hist >>

(* book = await BookService.get_book_by_id(book_id, db) *)
SummaryGet(p) ==
  /\ pc[p] = "summary_get"
  /\ Called(p, "db.execute")
  /\ LET book == scalar_one_or_none(books, req[p].book_id) IN
     IF IsSome(book)
     THEN /\ pc' = [pc EXCEPT ![p] = "summary_stats"]
          /\ loc' = [loc EXCEPT ![p] = [book |-> Get(book)]]
          /\ UNCHANGED resp
     ELSE /\ Respond(p, [status |-> HTTP_404_NOT_FOUND])
          /\ UNCHANGED loc
  /\ UNCHANGED << store, users, redis_client, redis_up, cache, req, writer, hist >>

(* The aggregate query, and BookSummaryResponse built from the result.    *)
SummaryStatsQuery(p) ==
  /\ pc[p] = "summary_stats"
  /\ Called(p, "db.execute")
  /\ LET stats == SummaryStats(reviews, req[p].book_id) IN
     Respond(p, [ status |-> HTTP_200_OK,
                  id |-> req[p].book_id,
                  title |-> loc[p].book.title,
                  author |-> loc[p].book.author,
                  summary |-> loc[p].book.summary,
                  average_rating |-> stats.average_rating,
                  total_reviews |-> stats.total_reviews ])
  /\ UNCHANGED << store, users, redis_client, redis_up, cache, req, loc, writer, hist >>

(* ------------------------- PUT /books/{id} ---------------------------- *)
StartUpdateBook(p, w) ==
  /\ CanStart(p, w)
  /\ \E id \in BookIds, d \in w.updates :
       Begin(p, [op |-> "update_book", book_id |-> id, book_data |-> d],
             NoLoc, "update_book_get")
  /\ UNCHANGED << store, users, redis_client, redis_up, cache, writer, hist >>

(* A lookup that empties the cache when it finds no book.                 *)
GetBookById_ClearsOnMiss(p, next) ==
  /\ Called(p, "db.execute")
  /\ IF IsSome(scalar_one_or_none(books, req[p].book_id))
     THEN /\ pc' = [pc EXCEPT ![p] = next]
          /\ UNCHANGED << resp, cache, writer >>
     ELSE /\ Respond(p, [status |-> HTTP_404_NOT_FOUND])
          /\ cache' = << >>
          /\ writer' = << >>
  /\ UNCHANGED << store, users, redis_client, redis_up, req, loc, hist >>

(* BookService.get_book_by_id, as update_book and delete_book call it *)
GetBookById(p, next) ==
  /\ Called(p, "db.execute")
  /\ IF IsSome(scalar_one_or_none(books, req[p].book_id))
     THEN /\ pc' = [pc EXCEPT ![p] = next]
          /\ UNCHANGED resp
     ELSE Respond(p, [status |-> HTTP_404_NOT_FOUND])
  /\ UNCHANGED << store, users, redis_client, redis_up, cache, req, loc, writer, hist >>

UpdateBookGet(p) ==
  /\ pc[p] = "update_book_get"
  /\ GetBookById(p, "update_book_commit")

(* An update that blanks the genre when the request does not send it.    *)
ApplyUpdate_BlanksUnsent(row, update_data) ==
  [ f \in DOMAIN row |-> IF f \in DOMAIN update_data THEN update_data[f]
                         ELSE IF f = "genre" THEN "" ELSE row[f] ]

(* setattr for every field sent *)
ApplyUpdate(row, update_data) ==
  [ f \in DOMAIN row |-> IF f \in DOMAIN update_data THEN update_data[f] ELSE row[f] ]

(* commit of the UPDATE: a row deleted meanwhile matches nothing and the  *)
(* session raises, which the application answers with 500.                *)
UpdateBookCommit(p) ==
  /\ pc[p] = "update_book_commit"
  /\ Called(p, "commit")
  /\ IF req[p].book_id \in DOMAIN books
     THEN LET book == ApplyUpdate(books[req[p].book_id], req[p].book_data) IN
          /\ books' = [books EXCEPT ![req[p].book_id] = book]
          /\ AfterCommit(p, [status |-> HTTP_200_OK, id |-> req[p].book_id,
                             book |-> book])
     ELSE /\ Respond(p, [status |-> HTTP_500_INTERNAL])
          /\ UNCHANGED << books, loc >>
  /\ UNCHANGED << reviews, nextBookId, nextReviewId, users, redis_client, redis_up, cache, req,
                  writer, hist >>

(* ------------------------ DELETE /books/{id} -------------------------- *)
StartDeleteBook(p, w) ==
  /\ CanStart(p, w)
  /\ \E id \in BookIds :
       Begin(p, [op |-> "delete_book", book_id |-> id], NoLoc, "delete_book_get")
  /\ UNCHANGED << store, users, redis_client, redis_up, cache, writer, hist >>

DeleteBookGet(p) ==
  /\ pc[p] = "delete_book_get"
  /\ GetBookById(p, "delete_book_commit")

(* A delete that leaves the reviews of the book behind. *)
CascadeDelete_Orphans(rvs, book_id) == rvs

(* relationship("Review", cascade="all, delete-orphan") and               *)
(* ForeignKey("books.id", ondelete="CASCADE"): the reviews table after    *)
(* the book is deleted.                                                   *)
CascadeDelete(rvs, book_id) == rvs \ ReviewsOf(rvs, book_id)

(* db.delete(book); commit: the book's reviews go with it (cascade).  A   *)
(* DELETE that matches no row any more only warns, and the commit passes. *)
(* The log of calls notes a cascade that had reviews to delete.           *)
DeleteBookCommit(p) ==
  /\ pc[p] = "delete_book_commit"
  /\ calls' = [calls EXCEPT ![p] =
                 @ \o (IF ReviewsOf(reviews, req[p].book_id) # {}
                       THEN <<"cascade">> ELSE << >>) \o <<"commit">>]
  /\ books' = [ id \in DOMAIN books \ {req[p].book_id} |-> books[id] ]
  /\ reviews' = CascadeDelete(reviews, req[p].book_id)
  /\ AfterCommit(p, [status |-> HTTP_204_NO_CONTENT])
  /\ UNCHANGED << nextBookId, nextReviewId, users, redis_client, redis_up, cache, req, writer, hist >>

(* ---------------------- POST /books/{id}/reviews ---------------------- *)
(* The reviews a user has on a book. *)
ReviewsBy(rvs, book_id, user_id) ==
  { r \in rvs : r.book_id = book_id /\ r.user_id = user_id }

(* The lookup with its two arguments exchanged. *)
ExistingReviews_Swapped(rvs, book_id, user_id) ==
  { r \in rvs : r.book_id = user_id /\ r.user_id = book_id }

(* select(Review).where((Review.book_id == book_id) & (Review.user_id == user_id)) *)
ExistingReviews(rvs, book_id, user_id) ==
  { r \in rvs : r.book_id = book_id /\ r.user_id = user_id }

StartCreateReview(p, w) ==
  /\ CanStart(p, w)
  /\ nextReviewId + InFlight("create_book_review") <= MaxReviews
  /\ \E id \in BookIds, u \in w.users, review_data \in w.reviews :
       LET r == [op |-> "create_book_review", book_id |-> id, user_id |-> u,
                 review_data |-> review_data,
                 reviewed_before |-> ReviewsBy(reviews, id, u)] IN
       IF ~ValidRating(review_data.rating)
       THEN Reject(p, r, HTTP_422_UNPROCESSABLE)
       ELSE Begin(p, r, NoLoc, "create_review_book")
  /\ UNCHANGED << store, users, redis_client, redis_up, cache, writer, hist >>

(* Verify book exists *)
CreateReviewBook(p) ==
  /\ pc[p] = "create_review_book"
  /\ Called(p, "db.execute")
  /\ IF req[p].book_id \in DOMAIN books
     THEN /\ pc' = [pc EXCEPT ![p] = "create_review_existing"]
          /\ UNCHANGED resp
     ELSE Respond(p, [status |-> HTTP_404_NOT_FOUND])
  /\ UNCHANGED << store, users, redis_client, redis_up, cache, req, loc, writer, hist >>

(* Check if user already reviewed this book: scalar_one_or_none raises on *)
(* more than one row.                                                     *)
CreateReviewExisting(p) ==
  /\ pc[p] = "create_review_existing"
  /\ Called(p, "db.execute")
  /\ LET n == Cardinality(ExistingReviews(reviews, req[p].book_id, req[p].user_id)) IN
       IF n = 0
       THEN /\ pc' = [pc EXCEPT ![p] = "create_review_commit"]
            /\ UNCHANGED resp
       ELSE IF n = 1
       THEN Respond(p, [status |-> HTTP_400_BAD_REQUEST,
                        detail |-> "You have already reviewed this book"])
       ELSE Respond(p, [status |-> HTTP_500_INTERNAL])
  /\ UNCHANGED << store, users, redis_client, redis_up, cache, req, loc, writer, hist >>

(* CheckConstraint("rating >= 1 AND rating <= 5") *)
rating_check(row) == row.rating >= MinRating /\ row.rating <= MaxRating

(* db.add(new_review); commit: the INSERT checks the foreign key to books *)
(* and the rating constraint, and nothing about the pair (book_id,        *)
(* user_id).                                                              *)
InsertReviewAllowed(bks, rvs, row) == row.book_id \in DOMAIN bks /\ rating_check(row)

CreateReviewCommit(p) ==
  /\ pc[p] = "create_review_commit"
  /\ Called(p, "commit")
  /\ LET new_review == [ id |-> nextReviewId,
                         book_id |-> req[p].book_id,
                         user_id |-> req[p].user_id,
                         review_text |-> req[p].review_data.review_text,
                         rating |-> req[p].review_data.rating ] IN
       IF InsertReviewAllowed(books, reviews, new_review)
       THEN /\ reviews' = reviews \cup {new_review}
            /\ AfterCommit(p, [status |-> HTTP_201_CREATED, review |-> new_review])
       ELSE /\ Respond(p, [status |-> HTTP_500_INTERNAL])
            /\ UNCHANGED << reviews, loc >>
  /\ nextReviewId' = nextReviewId + 1
  /\ UNCHANGED << books, nextBookId, users, redis_client, redis_up, cache, req, writer, hist >>

(* ------------- ReviewService.update_review / delete_review ----------- *)
(* Service operations no endpoint routes to; a caller gets the service's  *)
(* result or its HTTPException.                                           *)
StartUpdateReview(p, w) ==
  /\ CanStart(p, w)
  /\ \E id \in ReviewIds, u \in w.users, d \in w.review_updates :
       LET r == [op |-> "update_review", review_id |-> id, user_id |-> u,
                 review_data |-> d] IN
       IF "rating" \in DOMAIN d /\ ~ValidRating(d.rating)
       THEN Reject(p, r, HTTP_422_UNPROCESSABLE)
       ELSE Begin(p, r, NoLoc, "update_review_get")
  /\ UNCHANGED << store, users, redis_client, redis_up, cache, writer, hist >>

(* ReviewService.get_review_by_id, then the author check *)
GetReviewById(p, next) ==
  /\ Called(p, "db.execute")
  /\ LET found == { r \in reviews : r.id = req[p].review_id } IN
       IF found = {}
       THEN Respond(p, [status |-> HTTP_404_NOT_FOUND])
       ELSE IF (CHOOSE r \in found : TRUE).user_id # req[p].user_id
       THEN Respond(p, [status |-> HTTP_403_FORBIDDEN])
       ELSE /\ pc' = [pc EXCEPT ![p] = next]
            /\ UNCHANGED resp
  /\ UNCHANGED << store, users, redis_client, redis_up, cache, req, loc, writer, hist >>

UpdateReviewGet(p) ==
  /\ pc[p] = "update_review_get"
  /\ GetReviewById(p, "update_review_commit")

UpdateReviewCommit(p) ==
  /\ pc[p] = "update_review_commit"
  /\ Called(p, "commit")
  /\ LET found == { r \in reviews : r.id = req[p].review_id } IN
       IF found # {} /\ rating_check(ApplyUpdate(CHOOSE r \in found : TRUE,
                                                  req[p].review_data))
       THEN LET review == ApplyUpdate(CHOOSE r \in found : TRUE, req[p].review_data) IN
            /\ reviews' = (reviews \ found) \cup {review}
            /\ AfterCommit(p, [status |-> HTTP_200_OK, review |-> review])
       ELSE /\ Respond(p, [status |-> HTTP_500_INTERNAL])
            /\ UNCHANGED << reviews, loc >>
  /\ UNCHANGED << books, nextBookId, nextReviewId, users, redis_client, redis_up, cache, req,
                  writer, hist >>

StartDeleteReview(p, w) ==
  /\ CanStart(p, w)
  /\ \E id \in ReviewIds, u \in w.users :
       Begin(p, [op |-> "delete_review", review_id |-> id, user_id |-> u],
             NoLoc, "delete_review_get")
  /\ UNCHANGED << store, users, redis_client, redis_up, cache, writer, hist >>

DeleteReviewGet(p) ==
  /\ pc[p] = "delete_review_get"
  /\ GetReviewById(p, "delete_review_commit")

DeleteReviewCommit(p) ==
  /\ pc[p] = "delete_review_commit"
  /\ Called(p, "commit")
  /\ reviews' = { r \in reviews : r.id # req[p].review_id }
  /\ AfterCommit(p, [status |-> HTTP_204_NO_CONTENT])
  /\ UNCHANGED << books, nextBookId, nextReviewId, users, redis_client, redis_up, cache, req,
                  writer, hist >>

(* ------------- invalidate_recommendations_cache / clear_pattern -------- *)
(* The error of the cache call reaches the endpoint. *)
AnswerAfterCacheError_Raised(result) == [status |-> HTTP_500_INTERNAL]

(* if not self.redis_client: return False / except Exception: return      *)
(* False: clear_pattern returns, and the endpoint answers with the result *)
(* of its mutation.                                                       *)
AnswerAfterCacheError(result) == result

(* A loop that stops after its first batch. *)
LoopEnds_AfterFirstBatch(cursor) == TRUE

(* if cursor == 0: break *)
LoopEnds(cursor) == cursor = 0

(* cursor, keys = await scan(cursor, match=pattern, count=100).  Without  *)
(* a client clear_pattern returns at once; a scan that raises ends it in  *)
(* its except branch.  loc.visited is the part of the keyspace the cursor *)
(* stands for, loc.present the keys that existed when the first scan was  *)
(* made, loc.deleted what this call has deleted so far.                   *)
ClearPatternScan(p, w) ==
  /\ pc[p] = "clear_pattern_scan"
  /\ IF loc[p].cursor = 0 THEN Called(p, "invalidate") ELSE UNCHANGED calls
  /\ IF ~(redis_client /\ redis_up)
     THEN /\ Respond(p, AnswerAfterCacheError(loc[p].result))
          /\ UNCHANGED loc
     ELSE \E count \in w.scan_counts :
          \E batch \in ScanBatches(cache, loc[p].visited, count) :
            LET visited == loc[p].visited \cup batch
                cursor == IF DOMAIN cache \ visited = {} THEN 0 ELSE loc[p].cursor + 1
                keys == RedisScanMatch([k \in batch |-> cache[k]], RecommendationsPattern)
                l == [result |-> loc[p].result, cursor |-> cursor, visited |-> visited,
                      present |-> IF loc[p].cursor = 0 THEN DOMAIN cache
                                  ELSE loc[p].present,
                      deleted |-> loc[p].deleted]
            IN IF keys # {}
               THEN /\ loc' = [loc EXCEPT ![p] =
                                 [result |-> l.result, cursor |-> cursor,
                                  visited |-> visited, present |-> l.present,
                                  deleted |-> l.deleted, keys |-> keys]]
                    /\ pc' = [pc EXCEPT ![p] = "clear_pattern_delete"]
                    /\ UNCHANGED resp
               ELSE IF LoopEnds(cursor)
               THEN /\ loc' = [loc EXCEPT ![p] = l]
                    /\ Respond(p, l.result)
               ELSE /\ loc' = [loc EXCEPT ![p] = l]
                    /\ UNCHANGED << pc, resp >>
  /\ UNCHANGED << store, users, redis_client, redis_up, cache, req, writer, hist >>

(* if keys: await delete(keys); if cursor == 0: break.  A delete that     *)
(* raises ends clear_pattern in its except branch.  Either way the        *)
(* endpoint goes on and answers.                                          *)
ClearPatternDelete(p) ==
  /\ pc[p] = "clear_pattern_delete"
  /\ IF redis_up
     THEN /\ cache' = RedisDelete(cache, loc[p].keys)
          /\ LET l == [result |-> loc[p].result, cursor |-> loc[p].cursor,
                       visited |-> loc[p].visited, present |-> loc[p].present,
                       deleted |-> loc[p].deleted \cup loc[p].keys] IN
               /\ loc' = [loc EXCEPT ![p] = l]
               /\ IF LoopEnds(l.cursor)
                  THEN Respond(p, l.result)
                  ELSE /\ pc' = [pc EXCEPT ![p] = "clear_pattern_scan"]
                       /\ UNCHANGED resp
     ELSE /\ Respond(p, AnswerAfterCacheError(loc[p].result))
          /\ UNCHANGED << cache, loc >>
  /\ writer' = [ k \in DOMAIN cache' |-> writer[k] ]
  /\ UNCHANGED << store, users, redis_client, redis_up, req, calls, hist >>

(* ------------------------- end of a request --------------------------- *)
(* The response leaves; the task is free again.  A recommendation call    *)
(* that began on an empty cache is remembered until the next request      *)
(* has been answered.                                                     *)
HistoryAfter(p) ==
  IF /\ req[p].op = "get_recommendations"
     /\ Get(resp[p]).status = HTTP_200_OK
     /\ req[p].empty_before
  THEN Some([ genre |-> req[p].genre, limit |-> req[p].limit,
              recommendations |-> Get(resp[p]).recommendations,
              cached |-> Get(resp[p]).cached ])
  ELSE None

Return(p, w) ==
  /\ pc[p] = "done"
  /\ pc' = [pc EXCEPT ![p] = "idle"]
  /\ req' = [req EXCEPT ![p] = NoReq]
  /\ loc' = [loc EXCEPT ![p] = NoLoc]
  /\ resp' = [resp EXCEPT ![p] = None]
  /\ calls' = [calls EXCEPT ![p] = << >>]
  /\ hist' = IF w.remember THEN HistoryAfter(p) ELSE hist
  /\ UNCHANGED << store, users, redis_client, redis_up, cache, writer >>

(* ------------------------------- auth --------------------------------- *)
HTTP_401_UNAUTHORIZED == 401

MinUsernameLen == 3
MinPasswordLen == 8

Emails == {"a@x.io", "b@x.io"}
Usernames == {"al", "alice", "a@x.io"}
Passwords == {"password1", "password2"}

(* get_password_hash and verify_password of app.core.security: the hash   *)
(* is not the password, and a password verifies against its own hash only. *)
get_password_hash(password) == <<"hash", password>>
verify_password(password, hashed_password) == hashed_password = get_password_hash(password)

(* A check that finds nothing. *)
UsernameTaken_Never(us, username) == FALSE

(* select(User).where(User.email == user_data.email) *)
EmailTaken(us, email) == \E u \in us : u.email = email

(* select(User).where(User.username == user_data.username) *)
UsernameTaken(us, username) == \E u \in us : u.username = username

(* UserCreate: username of 3 to 50 characters, password of 8 to 100.      *)
ValidUserCreate(user_data) ==
  /\ Len(user_data.username) >= MinUsernameLen
  /\ Len(user_data.password) >= MinPasswordLen

(* unique=True on users.email and on users.username *)
InsertUserAllowed(us, row) ==
  \A u \in us : u.email # row.email /\ u.username # row.username

StartRegister(p) ==
  /\ pc[p] = "idle"
  /\ \E e \in Emails, n \in Usernames, pw \in {"password1"} :
       LET user_data == [email |-> e, username |-> n, password |-> pw]
           r == [op |-> "register", user_data |-> user_data,
                 taken_before |-> \E u \in users : u.email = e \/ u.username = n] IN
       IF ~ValidUserCreate(user_data)
       THEN Reject(p, r, HTTP_422_UNPROCESSABLE)
       ELSE Begin(p, r, NoLoc, "register_email")
  /\ UNCHANGED << store, users, redis_client, redis_up, cache, writer, hist >>

(* Check if email already exists *)
RegisterEmail(p) ==
  /\ pc[p] = "register_email"
  /\ Called(p, "db.execute")
  /\ IF EmailTaken(users, req[p].user_data.email)
     THEN Respond(p, [status |-> HTTP_400_BAD_REQUEST,
                      detail |-> "Email already registered"])
     ELSE /\ pc' = [pc EXCEPT ![p] = "register_username"]
          /\ UNCHANGED resp
  /\ UNCHANGED << store, users, redis_client, redis_up, cache, req, loc, writer, hist >>

(* Check if username already exists *)
RegisterUsername(p) ==
  /\ pc[p] = "register_username"
  /\ Called(p, "db.execute")
  /\ IF UsernameTaken(users, req[p].user_data.username)
     THEN Respond(p, [status |-> HTTP_400_BAD_REQUEST,
                      detail |-> "Username already taken"])
     ELSE /\ pc' = [pc EXCEPT ![p] = "register_commit"]
          /\ UNCHANGED resp
  /\ UNCHANGED << store, users, redis_client, redis_up, cache, req, loc, writer, hist >>

(* db.add(new_user); commit: the INSERT checks the two unique columns; a  *)
(* violation is an unhandled IntegrityError.  Ids are handed out in       *)
(* order; only their being distinct matters.                              *)
RegisterCommit(p) ==
  /\ pc[p] = "register_commit"
  /\ Called(p, "commit")
  /\ LET new_user == [ id |-> Cardinality(users) + 1,
                       email |-> req[p].user_data.email,
                       username |-> req[p].user_data.username,
                       hashed_password |-> get_password_hash(req[p].user_data.password),
                       is_active |-> TRUE ] IN
       IF InsertUserAllowed(users, new_user)
       THEN /\ users' = users \cup {new_user}
            /\ Respond(p, [status |-> HTTP_201_CREATED, id |-> new_user.id,
                           email |-> new_user.email, username |-> new_user.username])
       ELSE /\ Respond(p, [status |-> HTTP_500_INTERNAL])
            /\ UNCHANGED users
  /\ UNCHANGED << store, redis_client, redis_up, cache, req, loc, writer, hist >>

StartLogin(p) ==
  /\ pc[p] = "idle"
  /\ \E n \in Emails \cup Usernames, pw \in Passwords :
       Begin(p, [op |-> "login", username |-> n, password |-> pw], NoLoc, "login_query")
  /\ UNCHANGED << store, users, redis_client, redis_up, cache, writer, hist >>

(* select(User).where((User.username == username) | (User.email == username)) *)
LoginMatches(us, username) == { u \in us : u.username = username \/ u.email = username }

(* AuthService.authenticate_user and AuthService.login: scalar_one_or_none *)
(* raises on more than one row, which nothing catches.                    *)
LoginQuery(p) ==
  /\ pc[p] = "login_query"
  /\ Called(p, "db.execute")
  /\ LET found == LoginMatches(users, req[p].username) IN
     IF Cardinality(found) > 1
     THEN Respond(p, [status |-> HTTP_500_INTERNAL])
     ELSE IF found = {}
     THEN Respond(p, [status |-> HTTP_401_UNAUTHORIZED,
                      detail |-> "Incorrect username or password"])
     ELSE LET user == CHOOSE u \in found : TRUE IN
          IF ~verify_password(req[p].password, user.hashed_password)
          THEN Respond(p, [status |-> HTTP_401_UNAUTHORIZED,
                           detail |-> "Incorrect username or password"])
          ELSE IF ~user.is_active
          THEN Respond(p, [status |-> HTTP_403_FORBIDDEN, detail |-> "Inactive user"])
          ELSE Respond(p, [status |-> HTTP_200_OK,
                           access_token |-> [sub |-> IntToStr(user.id),
                                             username |-> user.username],
                           token_type |-> "bearer"])
  /\ UNCHANGED << store, users, redis_client, redis_up, cache, req, loc, writer, hist >>

(* ----------------------- POST /generate-summary ----------------------- *)
MinContentLen == 50

Contents ==
  { "Too short to summarize.",
    "Paul Atreides travels to the desert planet Arrakis, where his family is betrayed." }

(* What the summarization backend may return, and the ways in which the   *)
(* call to it may fail.                                                   *)
Summaries == {"A desert epic.", " A boy becomes a leader. "}
AICauses == {"Connection error.", "Error code: 401 - Invalid API Key"}
StoreCauses == {"connection to server at 10.0.0.5 failed"}

(* settings.DEBUG *)
DEBUG == FALSE

RECURSIVE WordsFrom(_, _, _)
WordsFrom(s, i, inword) ==
  IF i > Len(s) THEN 0
  ELSE IF CharAt(s, i) = " " THEN WordsFrom(s, i + 1, FALSE)
  ELSE (IF inword THEN 0 ELSE 1) + WordsFrom(s, i + 1, TRUE)

(* len(summary.split()) *)
WordCount(s) == WordsFrom(s, 1, FALSE)

RECURSIVE StripLeft(_)
StripLeft(s) == IF Len(s) > 0 /\ CharAt(s, 1) = " " THEN StripLeft(SubSeq(s, 2, Len(s))) ELSE s

RECURSIVE StripRight(_)
StripRight(s) ==
  IF Len(s) > 0 /\ CharAt(s, Len(s)) = " " THEN StripRight(SubSeq(s, 1, Len(s) - 1)) ELSE s

(* response.choices[0].message.content.strip() *)
strip(s) == StripRight(StripLeft(s))

(* GenerateSummaryRequest: content of 50 to 50000 characters.             *)
ValidContent(content) == Len(content) >= MinContentLen

(* str() of an HTTPException: "{status_code}: {detail}" *)
HTTPExceptionStr(status, detail) == IntToStr(status) \o ": " \o detail

(* AIService.generate_summary, except branch: the exception it raises.    *)
AIServiceError(cause) ==
  [ status |-> HTTP_500_INTERNAL, detail |-> "Failed to generate summary: " \o cause ]

(* generate_summary endpoint, except branch: the exception it raises from *)
(* the one the service raised.                                            *)
EndpointError(e) ==
  [ status |-> HTTP_500_INTERNAL,
    detail |-> "Failed to generate summary: " \o HTTPExceptionStr(e.status, e.detail) ]

(* global_exception_handler: the JSON body for an exception nothing else  *)
(* handled.                                                               *)
global_exception_handler(exc, debug) ==
  [ status |-> HTTP_500_INTERNAL,
    detail |-> "Internal server error",
    error |-> IF debug THEN exc ELSE "An unexpected error occurred" ]

StartGenerateSummary(p) ==
  /\ pc[p] = "idle"
  /\ \E id \in DOMAIN books \cup {nextBookId}, content \in Contents :
       LET r == [op |-> "generate_summary", book_id |-> id, content |-> content] IN
       IF ~ValidContent(content)
       THEN Reject(p, r, HTTP_422_UNPROCESSABLE)
       ELSE Begin(p, r, NoLoc, "gen_summary_get")
  /\ UNCHANGED << store, users, redis_client, redis_up, cache, writer, hist >>

(* book = await BookService.get_book_by_id(request.book_id, db) *)
GenSummaryGet(p) ==
  /\ pc[p] = "gen_summary_get"
  /\ Called(p, "db.execute")
  /\ IF IsSome(scalar_one_or_none(books, req[p].book_id))
     THEN /\ pc' = [pc EXCEPT ![p] = "gen_summary_call"]
          /\ UNCHANGED resp
     ELSE Respond(p, [status |-> HTTP_404_NOT_FOUND])
  /\ UNCHANGED << store, users, redis_client, redis_up, cache, req, loc, writer, hist >>

(* The lookup raises: the store cannot be reached.                        *)
GenSummaryGetFails(p) ==
  /\ pc[p] = "gen_summary_get"
  /\ Called(p, "db.execute")
  /\ \E cause \in StoreCauses : Respond(p, global_exception_handler(cause, DEBUG))
  /\ UNCHANGED << store, users, redis_client, redis_up, cache, req, loc, writer, hist >>

(* A handler that calls the backend again when the call has failed.       *)
GenSummaryCall_Retries(p) ==
  /\ pc[p] = "gen_summary_call"
  /\ Called(p, "ai.generate")
  /\ \/ \E text \in Summaries :
          /\ loc' = [loc EXCEPT ![p] = [summary |-> strip(text)]]
          /\ pc' = [pc EXCEPT ![p] = "gen_summary_commit"]
          /\ UNCHANGED resp
     \/ UNCHANGED << pc, loc, resp >>
  /\ UNCHANGED << store, users, redis_client, redis_up, cache, req, writer, hist >>

(* summary = await ai_service.generate_summary(request.content): one call *)
(* of client.chat.completions.create, which returns a text or raises.     *)
GenSummaryCall(p) ==
  /\ pc[p] = "gen_summary_call"
  /\ Called(p, "ai.generate")
  /\ \/ \E text \in Summaries :
          /\ loc' = [loc EXCEPT ![p] = [summary |-> strip(text)]]
          /\ pc' = [pc EXCEPT ![p] = "gen_summary_commit"]
          /\ UNCHANGED resp
     \/ \E cause \in AICauses :
          /\ Respond(p, EndpointError(AIServiceError(cause)))
          /\ UNCHANGED loc
  /\ UNCHANGED << store, users, redis_client, redis_up, cache, req, writer, hist >>

(* book.summary = summary; commit; refresh; the response.  The UPDATE of  *)
(* a row that is gone raises, which nothing catches.                      *)
GenSummaryCommit(p) ==
  /\ pc[p] = "gen_summary_commit"
  /\ Called(p, "commit")
  /\ IF req[p].book_id \in DOMAIN books
     THEN /\ books' = [books EXCEPT ![req[p].book_id].summary = Some(loc[p].summary)]
          /\ Respond(p, [status |-> HTTP_200_OK, summary |-> loc[p].summary,
                         word_count |-> WordCount(loc[p].summary)])
     ELSE /\ Respond(p, global_exception_handler("UPDATE statement on table 'books' expected to update 1 row(s); 0 were matched.", DEBUG))
          /\ UNCHANGED books
  /\ UNCHANGED << reviews, nextBookId, nextReviewId, users, redis_client, redis_up, cache,
                  req, loc, writer, hist >>

(* --------------------------- specifications --------------------------- *)
(* The store and the cache start empty; connect() at startup either       *)
(* reaches Redis or leaves redis_client None.                             *)
Init ==
  /\ books = << >>
  /\ reviews = {}
  /\ nextBookId = 1
  /\ nextReviewId = 1
  /\ users = Accounts
  /\ redis_client \in BOOLEAN
  /\ redis_up = TRUE
  /\ cache = << >>
  /\ writer = << >>
  /\ pc = [p \in Procs |-> "idle"]
  /\ req = [p \in Procs |-> NoReq]
  /\ loc = [p \in Procs |-> NoLoc]
  /\ resp = [p \in Procs |-> None]
  /\ calls = [p \in Procs |-> << >>]
  /\ hist = None

Handler(p, w) ==
  \/ StartGetRecommendations(p, w)
  \/ RecCacheGet(p)
  \/ RecQuery(p)
  \/ RecCacheSet(p)
  \/ StartCreateBook(p, w)
  \/ CreateBookCommit(p)
  \/ StartUpdateBook(p, w)
  \/ UpdateBookGet(p)
  \/ UpdateBookCommit(p)
  \/ StartDeleteBook(p, w)
  \/ DeleteBookGet(p)
  \/ DeleteBookCommit(p)
  \/ StartCreateReview(p, w)
  \/ CreateReviewBook(p)
  \/ CreateReviewExisting(p)
  \/ CreateReviewCommit(p)
  \/ ClearPatternScan(p, w)
  \/ ClearPatternDelete(p)
  \/ Return(p, w)

(* Requests served concurrently. *)
Next == \E p \in Procs : Handler(p, ConcurrentLoad)
Spec == Init /\ [][Next]_vars

ReviewServiceCall(p, w) ==
  \/ StartUpdateReview(p, w)
  \/ UpdateReviewGet(p)
  \/ UpdateReviewCommit(p)
  \/ StartDeleteReview(p, w)
  \/ DeleteReviewGet(p)
  \/ DeleteReviewCommit(p)

(* Requests served one after the other. *)
NextSeq == \E p \in Procs : Handler(p, SequentialLoad)
SpecSeq == Init /\ [][NextSeq]_vars

(* Requests and calls of the review service, one after the other. *)
NextSvc ==
  \E p \in Procs : Handler(p, ServiceLoad) \/ ReviewServiceCall(p, ServiceLoad)
SpecSvc == Init /\ [][NextSvc]_vars

(* The Redis server stops answering, and answers again.                   *)
RedisFails ==
  /\ redis_client
  /\ redis_up
  /\ redis_up' = FALSE
  /\ UNCHANGED << store, users, redis_client, cache, pc, req, loc, resp, calls, writer, hist >>

RedisRecovers ==
  /\ ~redis_up
  /\ redis_up' = TRUE
  /\ UNCHANGED << store, users, redis_client, cache, pc, req, loc, resp, calls, writer, hist >>

(* Requests served one after the other while Redis comes and goes and the *)
(* recommendation query may fail.                                         *)
NextOutage ==
  \/ \E p \in Procs : Handler(p, OutageLoad) \/ RecQueryFails(p)
  \/ RedisFails
  \/ RedisRecovers
SpecOutage == Init /\ [][NextOutage]_vars

(* A store of one book and a keyspace that holds, besides any of the      *)
(* recommendation entries computed from it, keys of other applications    *)
(* sharing the Redis database.                                            *)
ForeignKeys == {"recommendations", "session:recommendations:1"}

ScanSlots == { [genre |-> g, limit |-> MinLimit] : g \in {None, Some("fiction")} }

ScanBook ==
  [ title |-> "Dune", author |-> "Herbert", genre |-> "Fiction",
    year_published |-> 1965, summary |-> None ]

InitScan ==
  /\ books = << ScanBook >>
  /\ reviews = {}
  /\ nextBookId = 2
  /\ nextReviewId = 1
  /\ users = Accounts
  /\ redis_client = TRUE
  /\ redis_up = TRUE
  /\ \E slots \in SUBSET ScanSlots, foreign \in SUBSET ForeignKeys :
       LET entry(slot) ==
             [ value |-> json_dumps(CHOOSE l \in FreshRecommendations(
                                      << ScanBook >>, {}, slot.genre, slot.limit) : TRUE),
               ex |-> CACHE_TTL ]
           slot_of(k) == CHOOSE slot \in slots : cache_key(slot.genre, slot.limit) = k
       IN /\ cache = [ k \in { cache_key(slot.genre, slot.limit) : slot \in slots }
                               \cup foreign |->
                         IF k \in foreign
                         THEN [value |-> json_dumps(<< >>), ex |-> CACHE_TTL]
                         ELSE entry(slot_of(k)) ]
          /\ writer = [ k \in { cache_key(slot.genre, slot.limit) : slot \in slots }
                                \cup foreign |->
                          IF k \in foreign
                          THEN [genre |-> None, limit |-> 0]
                          ELSE slot_of(k) ]
  /\ pc = [p \in Procs |-> "idle"]
  /\ req = [p \in Procs |-> NoReq]
  /\ loc = [p \in Procs |-> NoLoc]
  /\ resp = [p \in Procs |-> None]
  /\ calls = [p \in Procs |-> << >>]
  /\ hist = None

(* Requests served one after the other. *)
NextScan == \E p \in Procs : Handler(p, ScanLoad)
SpecScan == InitScan /\ [][NextScan]_vars

(* Task 1 updates the book and invalidates while task 2 serves            *)
(* recommendation calls.  A scan or delete the invalidation awaits is     *)
(* answered, and the event loop resumes the coroutine.                    *)
NextScanRace ==
  \/ StartUpdateBook(1, ScanRaceLoad)
  \/ UpdateBookGet(1)
  \/ UpdateBookCommit(1)
  \/ ClearPatternScan(1, ScanRaceLoad)
  \/ ClearPatternDelete(1)
  \/ Return(1, ScanRaceLoad)
  \/ StartGetRecommendations(2, ScanRaceLoad)
  \/ RecCacheGet(2)
  \/ RecQuery(2)
  \/ RecCacheSet(2)
  \/ Return(2, ScanRaceLoad)
SpecScanRace ==
  /\ InitScan
  /\ [][NextScanRace]_vars
  /\ WF_vars(ClearPatternScan(1, ScanRaceLoad))
  /\ WF_vars(ClearPatternDelete(1))

(* Recommendation calls alone, over every store of QueryBooks books in    *)
(* which each user has reviewed each book at most once, with the cache    *)
(* not connected: every call computes its answer from the store.          *)
QueryRatings == {0, 3, MaxRating}

QueryReviews(given) ==
  { [ id |-> (k[1] - 1) * MaxUsers + k[2], book_id |-> k[1], user_id |-> k[2],
      review_text |-> "First review", rating |-> given[k] ] :
      k \in { x \in DOMAIN given : given[x] # 0 } }

InitQuery ==
  /\ books \in [ 1..QueryBooks ->
                   { [title |-> t, author |-> a, genre |-> g, year_published |-> y,
                      summary |-> None] :
                       t \in Titles, a \in Authors, g \in BookGenres, y \in Years } ]
  /\ \E given \in [ (1..QueryBooks) \X Users -> QueryRatings ] :
       reviews = QueryReviews(given)
  /\ nextBookId = QueryBooks + 1
  /\ nextReviewId = QueryBooks * MaxUsers + 1
  /\ users = Accounts
  /\ redis_client = FALSE
  /\ redis_up = TRUE
  /\ cache = << >>
  /\ writer = << >>
  /\ pc = [p \in Procs |-> "idle"]
  /\ req = [p \in Procs |-> NoReq]
  /\ loc = [p \in Procs |-> NoLoc]
  /\ resp = [p \in Procs |-> None]
  /\ calls = [p \in Procs |-> << >>]
  /\ hist = None

NextQuery ==
  \E p \in Procs :
    \/ StartGetRecommendations(p, QueryLoad)
    \/ RecCacheGet(p)
    \/ RecQuery(p)
    \/ RecCacheSet(p)
    \/ StartGetBookSummary(p, QueryLoad)
    \/ SummaryGet(p)
    \/ SummaryStatsQuery(p)
    \/ Return(p, QueryLoad)
SpecQuery == InitQuery /\ [][NextQuery]_vars

(* Registrations and logins served concurrently, from an empty users      *)
(* table.                                                                 *)
AuthLoad == [ConcurrentLoad EXCEPT !.remember = FALSE]

InitAuth ==
  /\ books = << >>
  /\ reviews = {}
  /\ nextBookId = 1
  /\ nextReviewId = 1
  /\ users = {}
  /\ redis_client = FALSE
  /\ redis_up = TRUE
  /\ cache = << >>
  /\ writer = << >>
  /\ pc = [p \in Procs |-> "idle"]
  /\ req = [p \in Procs |-> NoReq]
  /\ loc = [p \in Procs |-> NoLoc]
  /\ resp = [p \in Procs |-> None]
  /\ calls = [p \in Procs |-> << >>]
  /\ hist = None

NextAuth ==
  \E p \in Procs :
    \/ StartRegister(p)
    \/ RegisterEmail(p)
    \/ RegisterUsername(p)
    \/ RegisterCommit(p)
    \/ StartLogin(p)
    \/ LoginQuery(p)
    \/ Return(p, AuthLoad)
SpecAuth == InitAuth /\ [][NextAuth]_vars

(* Recommendation reads served concurrently over a store that does not    *)
(* change: books that may tie on both sort keys, and an empty cache.      *)
MissLoad ==
  [ sequential |-> FALSE,
    remember |-> FALSE,
    filter_genres |-> {None, Some("fiction")},
    limits |-> {MinLimit},
    book_genres |-> BookGenres,
    updates |-> {},
    users |-> {1},
    reviews |-> {},
    review_updates |-> {},
    scan_counts |-> {ScanCount} ]

InitMiss ==
  /\ books \in [ 1..MaxBooks ->
                   { [title |-> t, author |-> a, genre |-> g, year_published |-> y,
                      summary |-> None] :
                       t \in Titles, a \in Authors, g \in BookGenres, y \in Years } ]
  /\ \E given \in [ (1..MaxBooks) \X {1} -> QueryRatings ] :
       reviews = QueryReviews(given)
  /\ nextBookId = MaxBooks + 1
  /\ nextReviewId = MaxBooks * MaxUsers + 1
  /\ users = Accounts
  /\ redis_client = TRUE
  /\ redis_up = TRUE
  /\ cache = << >>
  /\ writer = << >>
  /\ pc = [p \in Procs |-> "idle"]
  /\ req = [p \in Procs |-> NoReq]
  /\ loc = [p \in Procs |-> NoLoc]
  /\ resp = [p \in Procs |-> None]
  /\ calls = [p \in Procs |-> << >>]
  /\ hist = None

NextMiss ==
  \E p \in Procs :
    \/ StartGetRecommendations(p, MissLoad)
    \/ RecCacheGet(p)
    \/ RecQuery(p)
    \/ RecCacheSet(p)
    \/ Return(p, MissLoad)
SpecMiss == InitMiss /\ [][NextMiss]_vars

(* Requests served one after the other by a server that may die between   *)
(* a commit and the invalidation that follows it, over a Redis that       *)
(* removes every key whose time to live has run out.                      *)
ExpiryLoad == OutageLoad

ExpiryKeys == { cache_key(g, l) : g \in ExpiryLoad.filter_genres, l \in ExpiryLoad.limits }

(* The process dies after db.commit() and before clear_pattern has made   *)
(* its first call: the request gets no answer, the store keeps the        *)
(* commit, Redis keeps its keys.  The history notes the keys left behind  *)
(* and, from then on, the keys that expired.                              *)
Crash(p) ==
  /\ pc[p] = "clear_pattern_scan"
  /\ loc[p].cursor = 0
  /\ ~IsSome(hist)
  /\ DOMAIN cache # {}
  /\ pc' = [pc EXCEPT ![p] = "idle"]
  /\ req' = [req EXCEPT ![p] = NoReq]
  /\ loc' = [loc EXCEPT ![p] = NoLoc]
  /\ resp' = [resp EXCEPT ![p] = None]
  /\ calls' = [calls EXCEPT ![p] = << >>]
  /\ hist' = Some([op |-> req[p].op, left |-> DOMAIN cache, expired |-> {}])
  /\ UNCHANGED << store, users, redis_client, redis_up, cache, writer >>

(* Redis removes a key set with SETEX once its seconds have passed.       *)
Expire(k) ==
  /\ k \in DOMAIN cache
  /\ cache[k].ex > 0
  /\ cache' = RedisDelete(cache, {k})
  /\ writer' = [ x \in DOMAIN cache' |-> writer[x] ]
  /\ hist' = IF IsSome(hist)
             THEN Some([Get(hist) EXCEPT !.expired = @ \cup {k}])
             ELSE hist
  /\ UNCHANGED << store, users, redis_client, redis_up, pc, req, loc, resp, calls >>

InitExpiry ==
  /\ Init
  /\ redis_client

NextExpiry ==
  \/ \E p \in Procs : Handler(p, ExpiryLoad) \/ Crash(p)
  \/ \E k \in ExpiryKeys : Expire(k)
SpecExpiry ==
  InitExpiry /\ [][NextExpiry]_vars /\ \A k \in ExpiryKeys : WF_vars(Expire(k))

(* Summaries requested concurrently for the books of a store, by a        *)
(* deployment whose backend and store may fail.                           *)
AILoad == [ConcurrentLoad EXCEPT !.remember = FALSE]

InitAI ==
  /\ books \in [ 1..MaxBooks ->
                   { [title |-> t, author |-> a, genre |-> g, year_published |-> y,
                      summary |-> sm] :
                       t \in Titles, a \in Authors, g \in {"Fiction"}, y \in Years,
                       sm \in {None, Some("An old summary.")} } ]
  /\ reviews = {}
  /\ nextBookId = MaxBooks + 1
  /\ nextReviewId = 1
  /\ users = Accounts
  /\ redis_client = FALSE
  /\ redis_up = TRUE
  /\ cache = << >>
  /\ writer = << >>
  /\ pc = [p \in Procs |-> "idle"]
  /\ req = [p \in Procs |-> NoReq]
  /\ loc = [p \in Procs |-> NoLoc]
  /\ resp = [p \in Procs |-> None]
  /\ calls = [p \in Procs |-> << >>]
  /\ hist = None

NextAI ==
  \E p \in Procs :
    \/ StartGenerateSummary(p)
    \/ GenSummaryGet(p)
    \/ GenSummaryGetFails(p)
    \/ GenSummaryCall(p)
    \/ GenSummaryCommit(p)
    \/ Return(p, AILoad)
SpecAI == InitAI /\ [][NextAI]_vars

(* ============================== claims ================================ *)
Success(status) == status \in {HTTP_200_OK, HTTP_201_CREATED, HTTP_204_NO_CONTENT}

Answered(p) == pc[p] = "done" /\ IsSome(resp[p])

Position(s, x) == IF \E i \in 1..Len(s) : s[i] = x
                  THEN CHOOSE i \in 1..Len(s) : s[i] = x ELSE 0

MutationEndpoints == {"create_book", "update_book", "delete_book", "create_book_review"}

(* C2: in each of the four mutating endpoints a success response is       *)
(* produced only after invalidate_recommendations_cache was called, and   *)
(* that call comes only after the commit.                                 *)
C2_CommitInvalidateRespond ==
  \A p \in Procs :
    req[p].op \in MutationEndpoints =>
      /\ Position(calls[p], "invalidate") # 0 =>
           /\ Position(calls[p], "commit") # 0
           /\ Position(calls[p], "commit") < Position(calls[p], "invalidate")
      /\ (IsSome(resp[p]) /\ Success(Get(resp[p]).status)) =>
           /\ Position(calls[p], "invalidate") # 0
           /\ calls[p][Len(calls[p])] = "invalidate"

C2_Witness ==
  \E p \in Procs :
    /\ Answered(p)
    /\ req[p].op = "update_book"
    /\ Get(resp[p]).status = HTTP_200_OK
    /\ calls[p] = << "db.execute", "commit", "invalidate" >>
    /\ redis_client

(* A mutation has committed and its invalidation has not finished yet.    *)
InvalidationPending ==
  \E p \in Procs : pc[p] \in {"clear_pattern_scan", "clear_pattern_delete"}

IsRecommendationCall(p) == req[p].op = "get_recommendations"

(* The step in which task p reads the cache and finds its entry.          *)
CacheHitStep(p) ==
  /\ pc[p] = "rec_cache_get"
  /\ pc'[p] = "done"
  /\ IsSome(resp'[p])
  /\ Get(resp'[p]).cached

(* C1: outside the window between a mutation's commit and the end of its  *)
(* invalidation, a cache hit never returns a list that differs from what  *)
(* the committed store yields for the parameters the entry was written    *)
(* for.                                                                   *)
C1_NoStaleHitOutsideWindow ==
  [][ \A p \in Procs :
        ( /\ CacheHitStep(p)
          /\ ~InvalidationPending
          /\ Get(resp'[p]).written_for = [genre |-> req[p].genre, limit |-> req[p].limit] )
        => Get(resp'[p]).recommendations
             \in FreshRecommendations(books, reviews, req[p].genre, req[p].limit) ]_vars

(* C3: after a successful review update or review delete the cache holds  *)
(* no recommendation entry any more.                                      *)
C3_ReviewChangeInvalidates ==
  \A p \in Procs :
    ( /\ Answered(p)
      /\ req[p].op \in {"update_review", "delete_review"}
      /\ Success(Get(resp[p]).status) )
    => RedisScanMatch(cache, RecommendationsPattern) = {}

(* C4: served one after the other with a connected cache, every           *)
(* recommendation call answers with a list the store yields for its       *)
(* parameters at that moment.                                             *)
C4_SequentialCallsAnswerFresh ==
  \A p \in Procs :
    ( /\ Answered(p)
      /\ IsRecommendationCall(p)
      /\ Get(resp[p]).status = HTTP_200_OK
      /\ redis_client )
    => Get(resp[p]).recommendations
         \in FreshRecommendations(books, reviews, req[p].genre, req[p].limit)

(* C5: a recommendation call that starts on an empty, connected cache     *)
(* answers cached = false; the same call repeated right after it answers  *)
(* cached = true with the same list.                                      *)
C5_SecondCallIsCachedAndEqual ==
  ( redis_client /\ IsSome(hist) ) =>
    /\ ~Get(hist).cached
    /\ \A p \in Procs :
         ( /\ Answered(p)
           /\ IsRecommendationCall(p)
           /\ Get(resp[p]).status = HTTP_200_OK
           /\ req[p].genre = Get(hist).genre
           /\ req[p].limit = Get(hist).limit )
         => /\ Get(resp[p]).cached
            /\ Get(resp[p]).recommendations = Get(hist).recommendations

C5_Witness ==
  /\ redis_client
  /\ IsSome(hist)
  /\ Get(hist).recommendations = << >>
  /\ \E p \in Procs :
       /\ Answered(p)
       /\ IsRecommendationCall(p)
       /\ req[p].genre = Get(hist).genre
       /\ req[p].limit = Get(hist).limit
       /\ Get(resp[p]).cached

(* C6: a recommendation call answered from the cache read an entry that   *)
(* a call with the same genre and the same limit wrote.                   *)
C6_HitReadsOwnSlot ==
  \A p \in Procs :
    ( /\ Answered(p)
      /\ IsRecommendationCall(p)
      /\ Get(resp[p]).status = HTTP_200_OK
      /\ Get(resp[p]).cached )
    => Get(resp[p]).written_for = [genre |-> req[p].genre, limit |-> req[p].limit]

(* C7: the hit step reads the stored entries and touches neither store    *)
(* nor cache; a call answered from the cache made the one call cache.get; *)
(* a call answered with cached = false made one query and one cache.set,  *)
(* and its set step leaves its list under its own key with CACHE_TTL.     *)
C7_HitAndMissEffects ==
  [][ \A p \in Procs :
        /\ CacheHitStep(p) =>
             /\ UNCHANGED << store, cache >>
             /\ calls'[p] = << "cache.get" >>
             /\ loc[p].cache_key = cache_key(req[p].genre, req[p].limit)
             /\ Get(resp'[p]).recommendations = json_loads(cache[loc[p].cache_key].value)
        /\ (pc[p] = "rec_cache_set" /\ pc'[p] = "done") =>
             /\ UNCHANGED store
             /\ calls'[p] = << "cache.get", "db.execute", "cache.set" >>
             /\ ~Get(resp'[p]).cached
             /\ Get(resp'[p]).recommendations = loc[p].recommendations
             /\ redis_client =>
                  /\ cache' = [ k \in DOMAIN cache \cup {cache_key(req[p].genre, req[p].limit)} |->
                                  IF k = cache_key(req[p].genre, req[p].limit)
                                  THEN [ value |-> json_dumps(Get(resp'[p]).recommendations),
                                         ex |-> CACHE_TTL ]
                                  ELSE cache[k] ]
        /\ (IsRecommendationCall(p) /\ pc[p] = "rec_query" /\ pc'[p] # pc[p]) =>
             /\ UNCHANGED << store, cache >>
             /\ loc'[p].recommendations
                  \in FreshRecommendations(books, reviews, req[p].genre, req[p].limit)
    ]_vars

C7_Witness ==
  \E p \in Procs :
    /\ Answered(p)
    /\ IsRecommendationCall(p)
    /\ redis_client
    /\ Get(resp[p]).status = HTTP_200_OK
    /\ ~Get(resp[p]).cached
    /\ Len(Get(resp[p]).recommendations) > 0
    /\ loc[p].cache_key \in DOMAIN cache
    /\ cache[loc[p].cache_key].ex = CACHE_TTL

(* The sort keys of a book, taken from the reviews table itself.          *)
ReviewCount(book_id) == Cardinality({ r \in reviews : r.book_id = book_id })
RatingSum(book_id) == SumRatings({ r \in reviews : r.book_id = book_id })

(* Book a does not rank below book b: more reviews, or as many and a mean *)
(* rating at least as high.                                               *)
RanksNotBelow(a, b) ==
  \/ ReviewCount(a) > ReviewCount(b)
  \/ /\ ReviewCount(a) = ReviewCount(b)
     /\ RatingSum(a) * ReviewCount(b) >= RatingSum(b) * ReviewCount(a)

(* C8: a list computed from the store holds min(limit, matching books)    *)
(* distinct matching books, in an order in which no book ranks below a    *)
(* later one, no matching book left out outranks a listed one, and every  *)
(* reviewed book stands before every book without reviews.                *)
C8_MissListIsSortedPrefix ==
  \A p \in Procs :
    ( /\ Answered(p)
      /\ IsRecommendationCall(p)
      /\ Get(resp[p]).status = HTTP_200_OK
      /\ ~Get(resp[p]).cached )
    => LET L == Get(resp[p]).recommendations
           F == GenreFilter(books, req[p].genre)
           listed == { L[i].id : i \in 1..Len(L) }
       IN /\ Len(L) <= req[p].limit
          /\ Len(L) = Min(req[p].limit, Cardinality(F))
          /\ listed \subseteq F
          /\ Cardinality(listed) = Len(L)
          /\ \A i, j \in 1..Len(L) : i < j => RanksNotBelow(L[i].id, L[j].id)
          /\ \A i \in 1..Len(L) : \A b \in F \ listed : RanksNotBelow(L[i].id, b)
          /\ \A i, j \in 1..Len(L) :
               (ReviewCount(L[i].id) = 0 /\ ReviewCount(L[j].id) > 0) => j < i

C8_Witness ==
  \E p \in Procs :
    /\ Answered(p)
    /\ IsRecommendationCall(p)
    /\ req[p].genre = None
    /\ req[p].limit = 3
    /\ { r.rating : r \in ReviewsOf(reviews, 1) } = {MaxRating}
    /\ ReviewCount(1) = 2
    /\ { r.rating : r \in ReviewsOf(reviews, 2) } = {MaxRating}
    /\ ReviewCount(2) = 1
    /\ ReviewCount(3) = 0
    /\ [ i \in 1..3 |-> Get(resp[p]).recommendations[i].id ] = << 1, 2, 3 >>

(* C9: no two reviews in the store share book and user.                   *)
C9_OneReviewPerBookAndUser ==
  \A r1, r2 \in reviews :
    (r1.book_id = r2.book_id /\ r1.user_id = r2.user_id) => r1 = r2

IsDuplicateReviewRequest(p) ==
  /\ req[p].op = "create_book_review"
  /\ req[p].review_data.rating \in MinRating..MaxRating
  /\ req[p].reviewed_before # {}

(* C10: while a valid review request of a user who had already reviewed   *)
(* the book is handled, no step changes the reviews table, and the only   *)
(* response it gets is 400 with the already-reviewed detail.              *)
C10_DuplicateReviewRejected ==
  [][ \A p \in Procs :
        IsDuplicateReviewRequest(p) =>
          /\ reviews' = reviews
          /\ IsSome(resp'[p]) =>
               /\ Get(resp'[p]).status = HTTP_400_BAD_REQUEST
               /\ Get(resp'[p]).detail = "You have already reviewed this book"
    ]_vars

C10_Witness ==
  \E p \in Procs :
    /\ Answered(p)
    /\ IsDuplicateReviewRequest(p)
    /\ Get(resp[p]).status = HTTP_400_BAD_REQUEST
    /\ \E r \in req[p].reviewed_before :
         /\ r \in reviews
         /\ r.rating # req[p].review_data.rating
         /\ r.review_text # req[p].review_data.review_text

(* A review create or review update whose body carries a rating outside   *)
(* the range.                                                             *)
CarriesBadRating(r) ==
  /\ r.op \in {"create_book_review", "update_review"}
  /\ "rating" \in DOMAIN r.review_data
  /\ r.review_data.rating \notin MinRating..MaxRating

(* C11: every stored review has a rating from 1 to 5; a review create or  *)
(* update that carries a rating outside that range makes no call to the   *)
(* database or the cache, changes neither, and is answered 422.           *)
C11_RatingsStayInRange ==
  /\ [](\A r \in reviews : r.rating \in MinRating..MaxRating)
  /\ [][ \A p \in Procs :
           (CarriesBadRating(req[p]) \/ CarriesBadRating(req'[p])) =>
             /\ UNCHANGED << store, cache >>
             /\ calls'[p] = << >>
             /\ pc'[p] \in {"done", "idle"}
             /\ IsSome(resp'[p]) => Get(resp'[p]).status = HTTP_422_UNPROCESSABLE
       ]_vars

C11_Witness ==
  \E p \in Procs :
    /\ Answered(p)
    /\ req[p].op = "update_review"
    /\ CarriesBadRating(req[p])
    /\ Get(resp[p]).status = HTTP_422_UNPROCESSABLE
    /\ \E r \in reviews : r.id = req[p].review_id /\ r.user_id = req[p].user_id
    /\ DOMAIN cache # {}

(* A recommendation request whose limit lies outside 1..50.               *)
CarriesBadLimit(r) ==
  /\ r.op = "get_recommendations"
  /\ r.limit \notin MinLimit..MaxQueryLimit

(* C12: a recommendation request with a limit outside 1..50 makes no call *)
(* to the cache or the database, changes neither, and is answered 422.    *)
C12_BadLimitRejectedFirst ==
  [][ \A p \in Procs :
        (CarriesBadLimit(req[p]) \/ CarriesBadLimit(req'[p])) =>
          /\ UNCHANGED << store, cache >>
          /\ calls'[p] = << >>
          /\ pc'[p] \in {"done", "idle"}
          /\ IsSome(resp'[p]) => Get(resp'[p]).status = HTTP_422_UNPROCESSABLE
    ]_vars

C12_Witness ==
  \E p \in Procs :
    /\ Answered(p)
    /\ CarriesBadLimit(req[p])
    /\ req[p].limit > MaxQueryLimit
    /\ Get(resp[p]).status = HTTP_422_UNPROCESSABLE
    /\ redis_client
    /\ DOMAIN books # {}
    /\ DOMAIN cache # {}

(* No client was acquired at startup, or the server does not answer.      *)
CacheUnavailable == ~redis_client \/ ~redis_up

(* Task p takes a step of its handler from position at.                   *)
StepsFrom(p, at) == pc[p] \in at /\ pc'[p] # pc[p]

(* C13: with the cache unavailable, a cache read is a miss and the call   *)
(* goes on to the store; a cache write changes nothing and the call       *)
(* answers 200 with its freshly computed list and cached = false; an      *)
(* invalidation changes nothing and the endpoint answers with the success *)
(* of its committed mutation.  A mutation that has committed is never     *)
(* answered with an error.                                                *)
C13_CacheOutageNeverFailsRequest ==
  /\ [](\A p \in Procs :
          ( /\ Answered(p)
            /\ req[p].op \in MutationEndpoints
            /\ Position(calls[p], "commit") # 0 )
          => Success(Get(resp[p]).status))
  /\ [][ \A p \in Procs :
           CacheUnavailable =>
             /\ StepsFrom(p, {"rec_cache_get"}) =>
                  /\ pc'[p] = "rec_query"
                  /\ resp'[p] = None
                  /\ cache' = cache
             /\ StepsFrom(p, {"rec_cache_set"}) =>
                  /\ cache' = cache
                  /\ IsSome(resp'[p])
                  /\ Get(resp'[p]).status = HTTP_200_OK
                  /\ ~Get(resp'[p]).cached
                  /\ Get(resp'[p]).recommendations
                       \in FreshRecommendations(books, reviews, req[p].genre, req[p].limit)
             /\ StepsFrom(p, {"clear_pattern_scan", "clear_pattern_delete"}) =>
                  /\ UNCHANGED << store, cache >>
                  /\ pc'[p] = "done"
                  /\ IsSome(resp'[p])
                  /\ Success(Get(resp'[p]).status)
       ]_vars

C13_Witness ==
  \E p \in Procs :
    /\ Answered(p)
    /\ req[p].op = "update_book"
    /\ Success(Get(resp[p]).status)
    /\ redis_client
    /\ ~redis_up
    /\ Position(calls[p], "invalidate") # 0
    /\ books[req[p].book_id].genre = req[p].book_data.genre
    /\ RedisScanMatch(cache, RecommendationsPattern) # {}

(* C14: a recommendation call changes the cache in no step before its     *)
(* cache.set; when its query fails it is answered 500 right then, having  *)
(* made the calls cache.get and db.execute only, and neither that step    *)
(* nor the return of the response changes the cache.                      *)
C14_FailedQueryWritesNothing ==
  [][ \A p \in Procs :
        IsRecommendationCall(p) =>
          /\ StepsFrom(p, {"rec_cache_get", "rec_query"}) => cache' = cache
          /\ (StepsFrom(p, {"rec_query"}) /\ pc'[p] = "done") =>
               /\ Get(resp'[p]).status = HTTP_500_INTERNAL
               /\ calls'[p] = << "cache.get", "db.execute" >>
               /\ UNCHANGED store
          /\ (Answered(p) /\ Get(resp[p]).status = HTTP_500_INTERNAL) =>
               /\ cache' = cache
               /\ Position(calls[p], "cache.set") = 0
    ]_vars

C14_Witness ==
  \E p \in Procs :
    /\ Answered(p)
    /\ IsRecommendationCall(p)
    /\ Get(resp[p]).status = HTTP_500_INTERNAL
    /\ redis_client
    /\ redis_up
    /\ DOMAIN cache # {}
    /\ loc[p].cache_key \notin DOMAIN cache

RecommendationsPrefix == "recommendations:"

HasPrefix(k, prefix) ==
  Len(k) >= Len(prefix) /\ SubSeq(k, 1, Len(prefix)) = prefix

RecommendationKeys(c) == { k \in DOMAIN c : HasPrefix(k, RecommendationsPrefix) }

(* Task p is inside the invalidation its mutation endpoint runs.          *)
Invalidating(p) ==
  /\ req[p].op \in MutationEndpoints
  /\ pc[p] \in {"clear_pattern_scan", "clear_pattern_delete"}

(* C15: with requests served one after the other, no step of an           *)
(* invalidation adds a key or touches an entry whose key does not begin   *)
(* with recommendations: , a step taken while no such key exists changes  *)
(* nothing, and when the invalidation returns no such key is left and the *)
(* endpoint answers with success.                                         *)
C15_InvalidateAllClearsExactlyThePattern ==
  [][ \A p \in Procs :
        Invalidating(p) =>
          /\ DOMAIN cache' \subseteq DOMAIN cache
          /\ \A k \in DOMAIN cache \ RecommendationKeys(cache) :
               k \in DOMAIN cache' /\ cache'[k] = cache[k]
          /\ RecommendationKeys(cache) = {} => cache' = cache
          /\ pc'[p] = "done" =>
               /\ RecommendationKeys(cache') = {}
               /\ IsSome(resp'[p])
               /\ Success(Get(resp'[p]).status)
    ]_vars

C15_Witness ==
  \E p \in Procs :
    /\ Answered(p)
    /\ req[p].op \in MutationEndpoints
    /\ Success(Get(resp[p]).status)
    /\ loc[p].deleted = { cache_key(slot.genre, slot.limit) : slot \in ScanSlots }
    /\ DOMAIN cache = ForeignKeys
    /\ \A k \in ForeignKeys : cache[k].value = json_dumps(<< >>)

(* C16: an invalidation that has started comes to its end; while it runs  *)
(* it goes back to scanning exactly when the last scan returned a cursor  *)
(* other than 0 and ends exactly when that cursor was 0; and when it ends *)
(* it has deleted every key matching the pattern that existed when its    *)
(* first scan was made (no other task deletes keys here, so these are the *)
(* keys present throughout).                                              *)
C16_ClearPatternTerminatesComplete ==
  /\ \A p \in Procs : (pc[p] = "clear_pattern_scan") ~> (pc[p] = "done")
  /\ [][ \A p \in Procs :
           (Invalidating(p) /\ <<pc[p], loc[p]>>' # <<pc[p], loc[p]>>) =>
             /\ pc'[p] = "done" => loc'[p].cursor = 0
             /\ pc'[p] = "clear_pattern_scan" => loc'[p].cursor # 0
             /\ pc'[p] = "done" =>
                  \A k \in loc'[p].present :
                    GlobMatch(k, RecommendationsPattern) => k \in loc'[p].deleted
       ]_vars

C16_Witness ==
  \E p \in Procs :
    /\ Answered(p)
    /\ req[p].op = "update_book"
    /\ "present" \in DOMAIN loc[p]
    /\ loc[p].cursor = 0
    /\ Cardinality(loc[p].present) > MaxScanBatch
    /\ Cardinality(loc[p].deleted) > MaxScanBatch
    /\ RecommendationKeys(cache) # {}

IsSummaryCall(p) == req[p].op = "get_book_summary"

(* C17: a book summary that is answered reports as total_reviews the      *)
(* number of reviews of the book and as average_rating their sum divided  *)
(* by that number (ratings 5 and 3 give 4.0); a book without reviews gets *)
(* total_reviews 0 and the average 0.0, never null.                       *)
C17_SummaryCountsAndAverages ==
  \A p \in Procs :
    ( /\ Answered(p)
      /\ IsSummaryCall(p)
      /\ Get(resp[p]).status = HTTP_200_OK )
    => LET r == Get(resp[p])
           n == ReviewCount(req[p].book_id)
       IN /\ r.total_reviews = n
          /\ IsSome(r.average_rating)
          /\ n = 0 => Get(r.average_rating) = 0
          /\ n > 0 => Get(r.average_rating) * n = RatingSum(req[p].book_id) * AvgScale
          /\ { x.rating : x \in ReviewsOf(reviews, req[p].book_id) } = {5, 3}
               => Get(r.average_rating) = 4 * AvgScale

C17_Witness ==
  \E p \in Procs :
    /\ Answered(p)
    /\ IsSummaryCall(p)
    /\ Get(resp[p]).status = HTTP_200_OK
    /\ { x.rating : x \in ReviewsOf(reviews, req[p].book_id) } = {5, 3}
    /\ Get(resp[p]).total_reviews = 2
    /\ Get(resp[p]).average_rating = Some(4 * AvgScale)
    /\ \E b \in DOMAIN books : ReviewCount(b) = 0

(* C18: in a recommendation list computed from the store every entry      *)
(* reports the number of reviews of its book, a null average exactly when *)
(* that number is 0 and otherwise the mean of the ratings; a book without *)
(* reviews that the list shows with a null average is shown by the book   *)
(* summary, over the same store, with the average 0.0.                    *)
C18_FreshEntryAggregates ==
  \A p \in Procs :
    ( /\ Answered(p)
      /\ IsRecommendationCall(p)
      /\ Get(resp[p]).status = HTTP_200_OK
      /\ ~Get(resp[p]).cached )
    => LET L == Get(resp[p]).recommendations IN
       \A i \in 1..Len(L) :
         LET n == ReviewCount(L[i].id) IN
         /\ L[i].total_reviews = n
         /\ (L[i].average_rating = None) <=> (n = 0)
         /\ n > 0 => Get(L[i].average_rating) * n = RatingSum(L[i].id) * AvgScale
         /\ n = 0 => /\ L[i].average_rating = None
                     /\ SummaryStats(reviews, L[i].id).average_rating = Some(0)
                     /\ SummaryStats(reviews, L[i].id).total_reviews = 0

C18_Witness ==
  \E p \in Procs :
    /\ Answered(p)
    /\ IsRecommendationCall(p)
    /\ ~Get(resp[p]).cached
    /\ LET L == Get(resp[p]).recommendations IN
       /\ Len(L) = 2
       /\ L[1].total_reviews = 2
       /\ L[1].average_rating = Some(4 * AvgScale)
       /\ L[2].total_reviews = 0
       /\ L[2].average_rating = None
       /\ SummaryStats(reviews, L[2].id).average_rating = Some(0)

(* C19: the book summary answers 404 exactly when no book has the         *)
(* requested id, and 200 otherwise, whatever the number of reviews.       *)
C19_SummaryNotFoundIffNoBook ==
  \A p \in Procs :
    (Answered(p) /\ IsSummaryCall(p))
    => /\ Get(resp[p]).status \in {HTTP_200_OK, HTTP_404_NOT_FOUND}
       /\ (Get(resp[p]).status = HTTP_404_NOT_FOUND) <=> (req[p].book_id \notin DOMAIN books)

C19_Witness ==
  /\ \E p \in Procs :
       /\ Answered(p)
       /\ IsSummaryCall(p)
       /\ Get(resp[p]).status = HTTP_200_OK
       /\ ReviewCount(req[p].book_id) = 0
  /\ \E b \in DOMAIN books : ReviewCount(b) > 0

(* sub occurs in s as it is written, letter case aside.                   *)
ContainsIgnoreCase(s, sub) ==
  \E i \in 1..(Len(s) - Len(sub) + 1) :
    \A k \in 1..Len(sub) : Lower(CharAt(s, i + k - 1)) = Lower(CharAt(sub, k))

LiteralMatches(genre) ==
  IF IsSome(genre)
  THEN { b \in DOMAIN books : ContainsIgnoreCase(books[b].genre, Get(genre)) }
  ELSE DOMAIN books

(* C20: a list computed from the store holds only books whose genre       *)
(* contains the requested text literally, letter case aside, and as many  *)
(* of them as the limit allows; without a genre no book is excluded.      *)
C20_GenreFilterIsLiteralSubstring ==
  \A p \in Procs :
    ( /\ Answered(p)
      /\ IsRecommendationCall(p)
      /\ Get(resp[p]).status = HTTP_200_OK
      /\ ~Get(resp[p]).cached )
    => LET L == Get(resp[p]).recommendations
           M == LiteralMatches(req[p].genre)
       IN /\ \A i \in 1..Len(L) : L[i].id \in M
          /\ Len(L) = Min(req[p].limit, Cardinality(M))

(* C21: every review references a book that exists; the step that commits *)
(* a book delete leaves the book not found and no review with its id; and *)
(* an id that was handed out and is gone is never found again.            *)
C21_DeleteBookCascades ==
  /\ [](\A r \in reviews : r.book_id \in DOMAIN books)
  /\ [][ /\ \A p \in Procs :
              (pc[p] = "delete_book_commit" /\ pc'[p] # pc[p]) =>
                /\ scalar_one_or_none(books', req[p].book_id) = None
                /\ ReviewsOf(reviews', req[p].book_id) = {}
                /\ \A r \in reviews : r.book_id # req[p].book_id => r \in reviews'
         /\ \A id \in 1..(nextBookId - 1) :
              id \notin DOMAIN books => id \notin DOMAIN books'
       ]_vars

C21_Witness ==
  \E p \in Procs :
    /\ Answered(p)
    /\ req[p].op = "delete_book"
    /\ Get(resp[p]).status = HTTP_204_NO_CONTENT
    /\ \E i \in 1..Len(calls[p]) : calls[p][i] = "cascade"
    /\ req[p].book_id \notin DOMAIN books
    /\ \E r \in reviews : r.book_id \in DOMAIN books

(* C22: no two users share an email or a username; and a registration     *)
(* that arrives with a valid payload whose email or username is already   *)
(* taken adds no user and is answered 400.                                *)
C22_UniqueEmailAndUsername ==
  /\ [](\A u, v \in users :
          (u.email = v.email \/ u.username = v.username) => u = v)
  /\ [][ \A p \in Procs :
           ( /\ req[p].op = "register"
             /\ req[p].taken_before
             /\ ValidUserCreate(req[p].user_data)
             /\ pc'[p] # pc[p] )
           => /\ users' = users
              /\ pc'[p] = "done" => Get(resp'[p]).status = HTTP_400_BAD_REQUEST
       ]_vars

C22_Witness ==
  \E p \in Procs :
    /\ Answered(p)
    /\ req[p].op = "register"
    /\ req[p].taken_before
    /\ Get(resp[p]).status = HTTP_400_BAD_REQUEST
    /\ Get(resp[p]).detail = "Username already taken"
    /\ Cardinality(users) > 1

(* C30: a login identifier matches at most one user, and every login is   *)
(* answered 200, 401 or 403.                                              *)
C30_LoginIdentifierMatchesOneUser ==
  /\ \A n \in Emails \cup Usernames : Cardinality(LoginMatches(users, n)) <= 1
  /\ \A p \in Procs :
       (Answered(p) /\ req[p].op = "login")
       => Get(resp[p]).status \in {HTTP_200_OK, HTTP_401_UNAUTHORIZED, HTTP_403_FORBIDDEN}

(* The step in which task p commits, or is refused, its book update.      *)
UpdateBookStep(p) == req[p].op = "update_book" /\ pc'[p] # pc[p]

C24_ConcurrentMissesWriteSameValue ==
  [][ \A p \in Procs :
        ( /\ pc[p] = "rec_cache_set"
          /\ pc'[p] # pc[p]
          /\ loc[p].cache_key \in DOMAIN cache )
        => /\ loc[p].cache_key \in DOMAIN cache'
           /\ cache'[loc[p].cache_key].value = cache[loc[p].cache_key].value
    ]_vars

(* C28: over an unchanging store, two recommendation calls with the same  *)
(* genre and limit that both computed their list from the store answer    *)
(* the same books in the same order.                                      *)
C28_FreshListIsDeterministic ==
  \A p, q \in Procs :
    ( /\ Answered(p) /\ IsRecommendationCall(p)
      /\ Answered(q) /\ IsRecommendationCall(q)
      /\ Get(resp[p]).status = HTTP_200_OK /\ ~Get(resp[p]).cached
      /\ Get(resp[q]).status = HTTP_200_OK /\ ~Get(resp[q]).cached
      /\ req[p].genre = req[q].genre
      /\ req[p].limit = req[q].limit )
    => Get(resp[p]).recommendations = Get(resp[q]).recommendations

(* C25: every cache entry carries a time to live; every entry, a stale    *)
(* one left behind by a crash included, is eventually gone; a call that   *)
(* does not find its key reads the store, and the list it answers is one  *)
(* the store gives at that moment.                                        *)
C25_StaleEntryExpires ==
  /\ [](\A k \in DOMAIN cache : cache[k].ex = CACHE_TTL /\ cache[k].ex > 0)
  /\ \A k \in ExpiryKeys : (k \in DOMAIN cache) ~> (k \notin DOMAIN cache)
  /\ [][ \A p \in Procs :
           /\ ( /\ pc[p] = "rec_cache_get"
                /\ pc'[p] # pc[p]
                /\ loc[p].cache_key \notin DOMAIN cache )
              => pc'[p] = "rec_query"
           /\ (pc[p] = "rec_query" /\ pc'[p] # pc[p])
              => loc'[p].recommendations \in
                   FreshRecommendations(books, reviews, req[p].genre, req[p].limit)
           /\ (pc[p] = "rec_cache_set" /\ pc'[p] # pc[p])
              => /\ ~Get(resp'[p]).cached
                 /\ Get(resp'[p]).recommendations = loc[p].recommendations
                 /\ Get(resp'[p]).recommendations \in
                      FreshRecommendations(books, reviews, req[p].genre, req[p].limit)
       ]_vars

C25_Witness ==
  \E p \in Procs :
    /\ Answered(p)
    /\ IsRecommendationCall(p)
    /\ ~Get(resp[p]).cached
    /\ Len(Get(resp[p]).recommendations) > 0
    /\ IsSome(hist)
    /\ Get(hist).op = "create_book"
    /\ nextBookId = 2
    /\ loc[p].cache_key \in Get(hist).left
    /\ loc[p].cache_key \in Get(hist).expired

IsGenerateSummary(p) == req[p].op = "generate_summary"

CarriesBadContent(p) == ~ValidContent(req[p].content)

CallsMade(p, what) == Cardinality({ i \in 1..Len(calls[p]) : calls[p][i] = what })

(* C26: a generate-summary request for an id no book has is answered 404  *)
(* with no call to the backend made; a failed backend call ends the       *)
(* request in 500 at that step, with one call made and no summary         *)
(* changed; and a stored summary changes only in the commit of a request  *)
(* whose call succeeded, to the text that call returned.                  *)
C26_GenerateSummaryFailures ==
  /\ [](\A p \in Procs :
          (Answered(p) /\ IsGenerateSummary(p)) =>
            /\ CallsMade(p, "ai.generate") <= 1
            /\ Get(resp[p]).status = HTTP_404_NOT_FOUND <=>
                 (~CarriesBadContent(p) /\ req[p].book_id \notin DOMAIN books
                    /\ "error" \notin DOMAIN Get(resp[p]))
            /\ Get(resp[p]).status = HTTP_404_NOT_FOUND => CallsMade(p, "ai.generate") = 0
            /\ Get(resp[p]).status = HTTP_200_OK => CallsMade(p, "ai.generate") = 1)
  /\ [][ /\ \A p \in Procs :
              (pc[p] = "gen_summary_call" /\ calls'[p] # calls[p]) =>
                /\ books' = books
                /\ CallsMade(p, "ai.generate") = 0
                /\ pc'[p] \in {"done", "gen_summary_commit"}
                /\ pc'[p] = "done" => Get(resp'[p]).status = HTTP_500_INTERNAL
         /\ \A id \in DOMAIN books :
              books'[id] # books[id] =>
                \E p \in Procs :
                  /\ pc[p] = "gen_summary_commit"
                  /\ req[p].book_id = id
                  /\ CallsMade(p, "ai.generate") = 1
                  /\ books'[id] = [books[id] EXCEPT !.summary = Some(loc[p].summary)]
                  /\ pc'[p] = "done"
                  /\ IsSome(resp'[p])
                  /\ Get(resp'[p]).status = HTTP_200_OK
       ]_vars

C26_Witness ==
  \E p, q \in Procs :
    /\ Answered(p) /\ IsGenerateSummary(p)
    /\ Get(resp[p]).status = HTTP_500_INTERNAL
    /\ CallsMade(p, "ai.generate") = 1
    /\ books[req[p].book_id].summary = Some("An old summary.")
    /\ Answered(q) /\ IsGenerateSummary(q)
    /\ Get(resp[q]).status = HTTP_200_OK
    /\ req[q].book_id # req[p].book_id

(* sub occurs in s as it is written.                                      *)
Contains(s, sub) ==
  \E i \in 1..(Len(s) - Len(sub) + 1) : SubSeq(s, i, i + Len(sub) - 1) = sub

(* The texts a response body carries.                                     *)
BodyTexts(r) == { r[f] : f \in DOMAIN r \cap {"detail", "error"} }

(* C27: with DEBUG off, no 500 response carries the text of the failure   *)
(* that caused it: its body is the uniform internal-error body.           *)
C27_NoCauseTextInErrorBody ==
  ~DEBUG =>
    \A p \in Procs :
      (Answered(p) /\ Get(resp[p]).status = HTTP_500_INTERNAL)
      => /\ \A t \in BodyTexts(Get(resp[p])) :
              \A cause \in AICauses \cup StoreCauses : ~Contains(t, cause)
         /\ Get(resp[p]) = global_exception_handler("", FALSE)

HasCalled(log, what) == \E i \in 1..Len(log) : log[i] = what

FailureStatus == {HTTP_404_NOT_FOUND, HTTP_400_BAD_REQUEST, HTTP_422_UNPROCESSABLE}

(* C29: a request to a mutating endpoint that is answered 404, 400 or 422 *)
(* has neither committed nor called the invalidation; and no step of such *)
(* a request made before its commit changes the store, no step made       *)
(* before its invalidation changes the cache.                             *)
C29_FailedMutationChangesNothing ==
  /\ [](\A p \in Procs :
          ( /\ Answered(p)
            /\ req[p].op \in MutationEndpoints
            /\ Get(resp[p]).status \in FailureStatus )
          => /\ ~HasCalled(calls[p], "commit")
             /\ ~HasCalled(calls[p], "invalidate"))
  /\ [][ \A p \in Procs :
           ( /\ req'[p].op \in MutationEndpoints
             /\ pc[p] # "done"
             /\ pc'[p] # pc[p] )
           => /\ ~HasCalled(calls'[p], "commit") => store' = store
              /\ ~HasCalled(calls'[p], "invalidate") => cache' = cache
              /\ (pc'[p] = "done" /\ Get(resp'[p]).status \in FailureStatus)
                   => (store' = store /\ cache' = cache)
       ]_vars

C29_Witness ==
  \E p \in Procs :
    /\ Answered(p)
    /\ req[p].op = "create_book_review"
    /\ Get(resp[p]).status = HTTP_400_BAD_REQUEST
    /\ DOMAIN cache # {}
    /\ ~HasCalled(calls[p], "invalidate")

====
